---- MODULE Spec2Model ----
(***************************************************************************)
(* A model of the file-upload analytics application (src/app.py) and of    *)
(* its two remote-analysis wrappers (src/yandex_gpt_module.py,             *)
(* src/gigachat_module.py).                                                *)
(*                                                                         *)
(* Strings that the code takes apart (file names) are sequences of         *)
(* one-character strings.  Cell values are records [t, v]: t is the        *)
(* Python/pandas type of the value and v its text.                         *)
(***************************************************************************)
EXTENDS Integers, Sequences, FiniteSets, Bags, TLC

VARIABLES uploads, clock, resp, call, client, threads

vars == <<uploads, clock, resp, call, client, threads>>

(***************************************************************************)
(* Bounds of the model.                                                    *)
(***************************************************************************)
\* the clock runs over 0..MaxClock seconds
MaxClock == 1
\* the server handles MaxThreads requests, each in a thread of its own
MaxThreads == 2
\* table_data arguments have up to SAMPLE_ROWS + ExtraRows rows
ExtraRows == 2
\* the tables given to detect_data_types have up to MaxCols columns
MaxCols == 2
\* the documents given to extract_table_from_pdf have up to MaxPages pages
MaxPages == 2

(***************************************************************************)
(* Program constants.                                                      *)
(***************************************************************************)
\* df.head(15) in the analysis endpoints, table_data[:15] in the wrapper
SAMPLE_ROWS == 15
\* df.head(100) in /upload
DISPLAY_ROWS == 100
\* file.save(filepath) copies the upload in chunks of 16384 bytes, which the
\* model takes to hold CHUNK_UNITS lines of a CSV file
CHUNK_UNITS == 3

\* min(a, b)
Min(a, b) == IF a < b THEN a ELSE b

\* ---------------------------------------------------------------- strings

\* the characters of the file names of the model
DOT == "."
\* the Cyrillic letter U+044F, one character that is not ASCII
CYR == "u044f"

\* str.lower() on one character (the upper-case letters the model uses)
Lower(c) ==
  CASE c = "P" -> "p" [] c = "D" -> "d" [] c = "F" -> "f"
    [] c = "C" -> "c" [] c = "S" -> "s" [] c = "V" -> "v"
    [] c = "X" -> "x" [] c = "L" -> "l" [] c = "A" -> "a"
    [] OTHER -> c

\* str.lower()
LowerStr(s) == [i \in 1..Len(s) |-> Lower(s[i])]

\* '.' in filename
HasDot(s) == \E i \in 1..Len(s) : s[i] = DOT

\* the position of the last '.', 0 when there is none
LastDot(s) ==
  IF HasDot(s) THEN CHOOSE i \in 1..Len(s) :
                      s[i] = DOT /\ \A j \in (i+1)..Len(s) : s[j] # DOT
  ELSE 0

\* filename.rsplit('.', 1)[1]
RSplitExt(s) == SubSeq(s, LastDot(s) + 1, Len(s))

\* str.endswith
EndsWith(s, suf) ==
  /\ Len(suf) <= Len(s)
  /\ SubSeq(s, Len(s) - Len(suf) + 1, Len(s)) = suf

EXT_PDF  == <<"p", "d", "f">>
EXT_CSV  == <<"c", "s", "v">>
EXT_XLSX == <<"x", "l", "s", "x">>
EXT_XLS  == <<"x", "l", "s">>

ALLOWED_EXTENSIONS == {EXT_XLSX, EXT_XLS, EXT_CSV, EXT_PDF}

\* allowed_file comparing the extension as it is written
allowed_file_case_sensitive(filename) ==
  /\ HasDot(filename)
  /\ RSplitExt(filename) \in ALLOWED_EXTENSIONS

allowed_file(filename) ==
  /\ HasDot(filename)
  /\ LowerStr(RSplitExt(filename)) \in ALLOWED_EXTENSIONS

\* ------------------------------------------------- werkzeug secure_filename

\* CYR is not ASCII: encode("ascii", "ignore") drops it
\* whitespace, and the path separator that is replaced by a space
Blank == {" ", "/"}
\* [A-Za-z0-9_.-]
SafeChars == {"a", "b", "p", "d", "f", "c", "s", "v", "x", "l", "t",
              "A", "P", "D", "F", "C", "S", "V", "X", "L",
              "0", "1", "2", "3", "4", "5", "6", "7", "8", "9",
              "_", ".", "-"}

RECURSIVE Filter(_, _)
\* the characters of s that are in keep, in order
Filter(s, keep) ==
  IF s = <<>> THEN <<>>
  ELSE IF Head(s) \in keep THEN <<Head(s)>> \o Filter(Tail(s), keep)
       ELSE Filter(Tail(s), keep)

RECURSIVE LStrip(_, _)
LStrip(s, drop) ==
  IF s # <<>> /\ Head(s) \in drop THEN LStrip(Tail(s), drop) ELSE s

RECURSIVE RStrip(_, _)
RStrip(s, drop) ==
  IF s # <<>> /\ s[Len(s)] \in drop
  THEN RStrip(SubSeq(s, 1, Len(s) - 1), drop) ELSE s

\* str.strip(chars)
Strip(s, drop) == RStrip(LStrip(s, drop), drop)

RECURSIVE JoinWords(_)
\* "_".join(s.split()) of a string with no leading or trailing blank
JoinWords(s) ==
  IF s = <<>> THEN <<>>
  ELSE IF Head(s) \in Blank
       THEN <<"_">> \o JoinWords(LStrip(s, Blank))
       ELSE <<Head(s)>> \o JoinWords(Tail(s))

secure_filename(filename) ==
  LET ascii  == Filter(filename, SafeChars \cup Blank)
      joined == JoinWords(Strip(ascii, Blank))
  IN  Strip(Filter(joined, SafeChars), {".", "_"})

\* ------------------------------------------------------------ cell values

Val(t, v) == [t |-> t, v |-> v]

\* None in an object column, NaN in a float column, NaT in a datetime column
NONE == Val("None", "")
NAN  == Val("nan", "")
NAT  == Val("NaT", "")

StrV(x) == Val("str", x)

\* pd.isnull on one value
IsNull(c) == c.t \in {"None", "nan", "NaT"}

\* the texts pd.to_numeric converts
NumericText == {"12", "7", "12.5"}
\* the texts pd.to_datetime converts
DateText == {"2020-01-01"}

\* pd.to_numeric(value) raises
ToNumericRaises(c) ==
  \/ c.t = "str" /\ c.v \notin NumericText
  \/ c.t = "Timestamp"

\* pd.to_datetime(value) raises: a text that is no date; numbers are taken
\* as nanoseconds since the epoch, booleans are refused
ToDatetimeRaises(c) ==
  \/ c.t = "str" /\ c.v \notin DateText
  \/ c.t = "bool"

\* pd.to_numeric(errors='coerce') on one value
ToNumericCoerce(c) ==
  CASE c.t = "str" /\ c.v \in NumericText -> Val("float", c.v)
    [] c.t \in {"int", "float"}           -> Val("float", c.v)
    [] OTHER                              -> NAN

\* pd.to_datetime(errors='coerce') on one value of a numeric column
ToDatetimeCoerce(c) ==
  CASE c.t \in {"int", "float"}            -> Val("Timestamp", c.v)
    [] c.t = "Timestamp"                   -> c
    [] c.t = "str" /\ c.v \in DateText     -> Val("Timestamp", c.v)
    [] OTHER                               -> NAT

\* ------------------------------------------------------------- DataFrame
\* A DataFrame is [index, cols]: index is the sequence of the labels of its
\* rows (the numbers the rows had in the table that was read, from 0, unless
\* the file gives the rows labels), cols the sequence of its columns.  A column is
\* [label, dtype, cells, pos]: cells has one value per row, pos is the
\* position the column had in the table that was read.

Column(label, dtype, cells, pos) ==
  [label |-> label, dtype |-> dtype, cells |-> cells, pos |-> pos]

DataFrame(index, cols) == [index |-> index, cols |-> cols]

\* len(df)
NRows(df) == Len(df.index)

RECURSIVE SelectIdx(_, _, _)
\* the members of keep among i..n, in increasing order
SelectIdx(i, n, keep) ==
  IF i > n THEN <<>>
  ELSE IF i = n THEN (IF i \in keep THEN <<i>> ELSE <<>>)
  ELSE LET m == (i + n) \div 2
       IN  SelectIdx(i, m, keep) \o SelectIdx(m + 1, n, keep)

\* the rows of df at the positions rows (a sequence), all columns
TakeRows(df, rows) ==
  DataFrame([k \in 1..Len(rows) |-> df.index[rows[k]]],
            [c \in 1..Len(df.cols) |->
               [df.cols[c] EXCEPT
                  !.cells = [k \in 1..Len(rows) |-> df.cols[c].cells[rows[k]]]]])

\* df.dropna(how='all'): the rows that have a value that is not null
DropNaRows(df) ==
  LET keep == {r \in 1..NRows(df) :
                 \E c \in 1..Len(df.cols) : ~IsNull(df.cols[c].cells[r])}
  IN  TakeRows(df, SelectIdx(1, NRows(df), keep))

\* df.dropna(axis=1, how='all'): the columns that have a value that is not null
DropNaCols(df) ==
  LET keep == {c \in 1..Len(df.cols) :
                 \E r \in 1..NRows(df) : ~IsNull(df.cols[c].cells[r])}
      sel  == SelectIdx(1, Len(df.cols), keep)
  IN  DataFrame(df.index, [k \in 1..Len(sel) |-> df.cols[sel[k]]])

\* df.where(pd.notnull(df), None): a missing value of an object column
\* becomes None; a float64 column keeps its NaN and a datetime column its NaT
WhereNotNull(df) ==
  DataFrame(df.index,
            [c \in 1..Len(df.cols) |->
               [df.cols[c] EXCEPT
                  !.cells = [r \in 1..Len(df.cols[c].cells) |->
                               IF /\ df.cols[c].dtype = "object"
                                  /\ IsNull(df.cols[c].cells[r])
                               THEN NONE ELSE df.cols[c].cells[r]]]])

\* df.head(n)
HeadRows(df, n) ==
  LET m == IF NRows(df) < n THEN NRows(df) ELSE n
  IN  TakeRows(df, [k \in 1..m |-> k])

\* df[column] is a Series only when one column carries the label
LabelIsUnique(df, label) ==
  Cardinality({c \in 1..Len(df.cols) : df.cols[c].label = label}) = 1

\* ----------------------------------------------------- detect_data_types

\* a Python dict as a function; d[k] = v
Put(d, k, v) == [x \in (DOMAIN d) \cup {k} |-> IF x = k THEN v ELSE d[x]]

EmptyDict == <<>>

\* df[column].dropna().head(3): the first values that are not null
NonNull(cells) ==
  LET keep == {k \in 1..Len(cells) : ~IsNull(cells[k])}
      sel  == SelectIdx(1, Len(cells), keep)
  IN  [k \in 1..Len(sel) |-> cells[sel[k]]]

SampleValues(cells) ==
  LET nn == NonNull(cells)
  IN  SubSeq(nn, 1, IF Len(nn) < 3 THEN Len(nn) ELSE 3)

\* the label detect_data_types gives one column (the body of its loop)
ColumnType(col) ==
  IF col.dtype \in {"int64", "float64"} THEN "numeric"
  ELSE IF col.dtype = "object"
       THEN LET sample_values == SampleValues(col.cells)
            IN  IF Len(sample_values) = 0 THEN "text"
                ELSE IF ~ToDatetimeRaises(sample_values[1]) THEN "datetime"
                ELSE IF ~ToNumericRaises(sample_values[1]) THEN "numeric"
                ELSE "text"
       ELSE "text"

\* The loop of detect_data_types over df.columns is
\* [df, column, data_types, raised, ended]: column is the position of the
\* column it examines next, data_types the dict so far, raised whether an
\* exception left it.
DetectLoop(df) ==
  [df |-> df, column |-> 1, data_types |-> EmptyDict, raised |-> FALSE,
   ended |-> Len(df.cols) = 0]

\* one pass of the loop; df[column].dtype raises AttributeError when
\* df[column] is a DataFrame (a label carried twice)
DetectPass(loop) ==
  LET col == loop.df.cols[loop.column]
  IN  IF ~LabelIsUnique(loop.df, col.label)
      THEN [loop EXCEPT !.raised = TRUE, !.ended = TRUE]
      ELSE [loop EXCEPT !.data_types = Put(@, col.label, ColumnType(col)),
                        !.column = @ + 1,
                        !.ended = loop.column = Len(loop.df.cols)]

RECURSIVE DetectFrom(_)
\* the loop from loop on, to its end
DetectFrom(loop) ==
  IF loop.ended THEN loop ELSE DetectFrom(DetectPass(loop))

detect_data_types(df) ==
  LET loop == DetectFrom(DetectLoop(df))
  IN  [raised |-> loop.raised, data_types |-> loop.data_types]

\* ------------------------------------------------ extract_table_from_pdf
\* A file is [fmt, doc, enc, df].  For a PDF, doc is what pdfplumber reads:
\* a sequence of pages, a page being the sequence of the tables
\* extract_tables() finds on it, a table a sequence of rows, a row a
\* sequence of cells (a text or None).

EmptyFrame == DataFrame(<<>>, <<>>)

Raise(kind) == [raised |-> TRUE, error |-> kind, df |-> EmptyFrame]
Return(df)  == [raised |-> FALSE, error |-> "", df |-> df]

\* pd.DataFrame(data_rows, columns=headers)
FrameOf(headers, data_rows) ==
  DataFrame([r \in 1..Len(data_rows) |-> r - 1],
            [c \in 1..Len(headers) |->
               Column(headers[c], "object",
                      [r \in 1..Len(data_rows) |-> data_rows[r][c]], c)])

\* one pass of the typing loop: pd.to_numeric(errors='coerce') and then
\* pd.to_datetime(errors='coerce'); both raise, and are skipped, when
\* df[column] is a DataFrame
TypeColumn(df, col) ==
  IF LabelIsUnique(df, col.label)
  THEN [col EXCEPT
          !.cells = [r \in 1..Len(col.cells) |->
                       ToDatetimeCoerce(ToNumericCoerce(col.cells[r]))],
          !.dtype = "datetime64[ns]"]
  ELSE col

\* The typing loop over df.columns is [df, column, ended]: column is the
\* position of the column it visits next.
TypeLoop(df) == [df |-> df, column |-> 1, ended |-> Len(df.cols) = 0]

\* one pass of the typing loop
TypePass(loop) ==
  [df     |-> DataFrame(loop.df.index,
                        [loop.df.cols EXCEPT
                           ![loop.column] = TypeColumn(loop.df, @)]),
   column |-> loop.column + 1,
   ended  |-> loop.column = Len(loop.df.cols)]

RECURSIVE TypeFrom(_)
\* the typing loop from loop on, to its end
TypeFrom(loop) ==
  IF loop.ended THEN loop ELSE TypeFrom(TypePass(loop))

\* the typing loop: the typed table
TypeColumns(df) == TypeFrom(TypeLoop(df)).df

\* the table a PDF gives before the typing loop: the first row of the table
\* names the columns, rows and columns without a value are dropped
UntypedFrame(table) ==
  WhereNotNull(DropNaCols(DropNaRows(FrameOf(table[1], Tail(table)))))

\* the page whose tables are examined
ExaminedPage(doc) == doc[1]

\* extract_table_from_pdf without the check for a data row
extract_table_from_pdf_no_row_check(file) ==
  IF file.fmt # "pdf" THEN Raise("not a PDF")
  ELSE IF Len(file.doc) = 0 THEN Raise("no pages")
  ELSE LET tables == ExaminedPage(file.doc)
       IN  IF Len(tables) = 0 THEN Raise("no tables")
           ELSE LET table == tables[1]
                IN  IF Len(table) = 0 THEN Raise("empty table")
                    ELSE Return(TypeColumns(UntypedFrame(table)))

extract_table_from_pdf(file) ==
  IF file.fmt # "pdf" THEN Raise("not a PDF")
  ELSE IF Len(file.doc) = 0 THEN Raise("no pages")
  ELSE LET tables == ExaminedPage(file.doc)
       IN  IF Len(tables) = 0 THEN Raise("no tables")
           ELSE LET table == tables[1]
                IN  IF Len(table) = 0 THEN Raise("empty table")
                    ELSE IF Len(table) < 2 THEN Raise("short table")
                    ELSE Return(TypeColumns(UntypedFrame(table)))

\* ------------------------------------------------------ the remote wrappers
\* table_data is a list of dicts, one per row: a row is [row, items], row
\* the position of the row in the table it was taken from and items the
\* sequence of its <<key, value>> pairs.

\* the keys of a dict, in order
Keys(d) == [k \in 1..Len(d.items) |-> d.items[k][1]]

\* ', '.join(columns) raises TypeError on a key that is no str
JoinRaises(columns) == \E k \in 1..Len(columns) : columns[k].t # "str"

\* the rows GigaChatAnalyzer.analyze_table_data writes into its prompt
GigaChatPromptRows(table_data) == table_data

\* the prompt GigaChatAnalyzer.analyze_table_data builds
GigaChatPrompt(table_data, filename) ==
  [filename |-> filename,
   columns  |-> IF Len(table_data) > 0 THEN Keys(table_data[1]) ELSE <<>>,
   lines    |-> LET rows == GigaChatPromptRows(table_data)
                IN  [i \in 1..Len(rows) |-> [n |-> i, row |-> rows[i].row]]]

\* the outcome of the remote call as the wrappers see it:
\* "text" (an answer), "empty" (no choices / alternatives), "raises"
RemoteOutcomes == {"text", "empty", "raises"}

Success(model, filename) ==
  [success |-> TRUE, analysis |-> "text", model |-> model,
   filename |-> filename]

Failure(error) == [success |-> FALSE, error |-> error]

\* what a wrapper call did: the dict it returned (ret), whether an
\* exception left it (raised) and the prompts it sent to the remote service
Outcome(ret, sent) == [raised |-> FALSE, ret |-> ret, sent |-> sent]

\* an exception leaves the try block, after the prompts in sent were sent
Raised(sent) == [raised |-> TRUE, ret |-> Failure("exception"), sent |-> sent]

\* the try block of GigaChatAnalyzer.analyze_table_data
GigaChatTry(table_data, filename, remote) ==
  IF Len(table_data) > 0 /\ JoinRaises(Keys(table_data[1]))
  THEN Raised(<<>>)
  ELSE LET full_prompt == GigaChatPrompt(table_data, filename)
       IN  CASE remote = "raises" -> Raised(<<full_prompt>>)
             [] remote = "empty" ->
                  Outcome(Failure("gigachat: empty"), <<full_prompt>>)
             [] OTHER ->
                  Outcome(Success("gigachat", filename), <<full_prompt>>)

\* GigaChatAnalyzer.analyze_table_data without its except clause
gigachat_analyze_table_data_uncaught(table_data, filename, remote) ==
  GigaChatTry(table_data, filename, remote)

\* GigaChatAnalyzer.analyze_table_data: the try block and its except clause
gigachat_analyze_table_data(table_data, filename, remote) ==
  LET t == GigaChatTry(table_data, filename, remote)
  IN  IF t.raised THEN Outcome(Failure("gigachat: exception"), t.sent)
      ELSE t

\* table_data[:15]
YandexPromptRows(table_data) ==
  SubSeq(table_data, 1,
         IF Len(table_data) < SAMPLE_ROWS THEN Len(table_data)
         ELSE SAMPLE_ROWS)

\* YandexGPTAnalyzer._prepare_data_for_analysis and the user prompt
YandexPrompt(table_data, filename) ==
  [filename |-> filename,
   columns  |-> IF Len(table_data) > 0 THEN Keys(table_data[1]) ELSE <<>>,
   lines    |-> LET rows == YandexPromptRows(table_data)
                IN  [i \in 1..Len(rows) |-> [n |-> i, row |-> rows[i].row]]]

\* the try block of YandexGPTAnalyzer.analyze_table_data
YandexTry(table_data, filename, remote) ==
  LET messages == YandexPrompt(table_data, filename)
  IN  CASE remote = "raises" -> Raised(<<messages>>)
        [] remote = "empty" ->
             Outcome(Failure("yandex: empty"), <<messages>>)
        [] OTHER ->
             Outcome(Success("yandexgpt", filename), <<messages>>)

\* YandexGPTAnalyzer.analyze_table_data: the try block and its except clause
yandex_analyze_table_data(table_data, filename, remote) ==
  LET t == YandexTry(table_data, filename, remote)
  IN  IF t.raised THEN Outcome(Failure("yandex: exception"), t.sent)
      ELSE t

\* The environment of the constructors: folder_id, auth_token and api_key
\* say whether YANDEX_FOLDER_ID, YANDEX_AUTH_TOKEN and GIGACHAT_API_KEY are
\* set, client whether the client library constructs.
Envs == [folder_id : BOOLEAN, auth_token : BOOLEAN, api_key : BOOLEAN,
         client : BOOLEAN]

\* GigaChatAnalyzer.__init__ raises
GigaChatInitRaises(env) == ~env.api_key \/ ~env.client

\* YandexGPTAnalyzer.__init__ raises
YandexInitRaises(env) == ~env.folder_id \/ ~env.auth_token \/ ~env.client

\* what a create_*_analyzer call did: the value it returned ("None" or the
\* analyzer) and whether an exception left it
Created(analyzer) == [raised |-> FALSE, analyzer |-> analyzer]

\* create_gigachat_analyzer: the constructor and the except clause
create_gigachat_analyzer(env) ==
  IF GigaChatInitRaises(env) THEN Created("None")
  ELSE Created("GigaChatAnalyzer")

\* create_yandex_analyzer: the constructor and the except clause
create_yandex_analyzer(env) ==
  IF YandexInitRaises(env) THEN Created("None")
  ELSE Created("YandexGPTAnalyzer")

\* ------------------------------------------------------- function inputs

LabelA == StrV("a")
LabelB == StrV("b")

\* the column labels of the tables given to detect_data_types
Labels == {LabelA, LabelB}

\* the columns given to detect_data_types: <<dtype, cells>>
ColumnPool ==
  { <<"int64",   <<Val("int", "12"), Val("int", "7")>>>>,
    <<"float64", <<Val("float", "12"), NAN>>>>,
    <<"float64", <<NAN, NAN>>>>,
    <<"object",  <<StrV("2020-01-01"), NONE>>>>,
    <<"object",  <<StrV("abc"), StrV("abc")>>>>,
    <<"object",  <<NONE, StrV("12.5")>>>>,
    <<"object",  <<NONE, NONE>>>>,
    <<"object",  <<Val("int", "12"), StrV("abc")>>>>,
    <<"datetime64[ns]", <<Val("Timestamp", "2020-01-01"), NAT>>>>,
    <<"bool",    <<Val("bool", "True"), Val("bool", "False")>>>> }

\* all sequences over S of length n
RECURSIVE SeqsOfLen(_, _)
SeqsOfLen(S, n) ==
  IF n = 0 THEN {<<>>}
  ELSE {<<x>> \o t : x \in S, t \in SeqsOfLen(S, n - 1)}

\* all sequences over S of length 0..n
SeqsUpTo(S, n) == UNION {SeqsOfLen(S, k) : k \in 0..n}

\* the tables given to detect_data_types: two rows, 1..MaxCols columns
DetectInputs ==
  { DataFrame(<<0, 1>>,
              [c \in 1..Len(cs) |-> Column(cs[c][1], cs[c][2][1], cs[c][2][2], c)])
    : cs \in SeqsUpTo(Labels \X ColumnPool, MaxCols) \ {<<>>} }

\* the tables extract_tables() may find
TableMixed ==
  << <<StrV("n"), StrV("d"), StrV("t")>>,
     <<StrV("12"), StrV("2020-01-01"), StrV("abc")>>,
     <<StrV("7"), NONE, StrV("abc")>> >>
TableBlankRow ==
  << <<LabelA, LabelB>>, <<NONE, NONE>>, <<StrV("12"), StrV("abc")>> >>
TableDupHeader == << <<LabelA, LabelA>>, <<StrV("12"), StrV("abc")>> >>
TableNoneColumn == << <<LabelA, NONE>>, <<StrV("abc"), NONE>> >>
TableHeaderOnly == << <<LabelA, LabelB>> >>
TableEmpty == << >>

TablePool == {TableMixed, TableBlankRow, TableDupHeader, TableNoneColumn,
              TableHeaderOnly, TableEmpty}

\* the pages of a document: no table, one table or two tables
PagePool == {<<>>} \cup {<<t>> : t \in TablePool}
                   \cup {<<TableEmpty, TableMixed>>,
                         <<TableMixed, TableHeaderOnly>>}

PdfFile(doc) == [fmt |-> "pdf", doc |-> doc, enc |-> "", df |-> EmptyFrame]

\* the files given to extract_table_from_pdf
ExtractInputs == {PdfFile(doc) : doc \in SeqsUpTo(PagePool, MaxPages)}

\* a table_data argument of n rows with the one key label
TableData(n, label) ==
  [i \in 1..n |-> [row |-> i - 1, items |-> <<<<label, StrV("abc")>>>>]]

TableDataInputs ==
  {TableData(n, label) : n \in 0..(SAMPLE_ROWS + ExtraRows),
                         label \in {LabelA, NONE}}

\* the filename arguments of analyze_table_data
FilenameArgs == {"data.csv", ""}

\* ------------------------------------------------------------ stored files
\* A CSV or Excel file is given by the table pandas parses from it (df); a
\* CSV file also by the encoding of its bytes (enc): "utf-8", "cp1251",
\* "latin-1", or "broken" for a file no encoding parses, and by the number
\* of fields its lines of data carry before those the header names (lead),
\* which read_csv takes as the labels of the rows.

IndexedCsvFile(enc, df, lead) ==
  [fmt |-> "csv", doc |-> <<>>, enc |-> enc, df |-> df, lead |-> lead]

CsvFile(enc, df) == IndexedCsvFile(enc, df, 0)
ExcelFile(df) == [fmt |-> "xlsx", doc |-> <<>>, enc |-> "", df |-> df]

\* the bytes of encoding enc are read with encoding: utf-8 refuses the bytes
\* of the other encodings, cp1251 those of latin-1
Decodes(enc, encoding) ==
  \/ enc = encoding
  \/ enc = "utf-8" /\ encoding \in {"cp1251", "latin-1"}
  \/ enc = "cp1251" /\ encoding = "latin-1"

\* pd.read_csv(filepath, encoding=encoding): a file without bytes has no
\* columns to parse
read_csv(file, encoding) ==
  IF file.fmt = "empty" THEN Raise("EmptyDataError")
  ELSE IF file.fmt # "csv" \/ file.enc = "broken" THEN Raise("ParserError")
  ELSE IF ~Decodes(file.enc, encoding) THEN Raise("UnicodeDecodeError")
  ELSE Return(file.df)

\* pd.read_excel(filepath): the format of a file that is no workbook cannot
\* be determined
read_excel(file) ==
  IF file.fmt = "xlsx" THEN Return(file.df) ELSE Raise("read_excel")

\* the reader the endpoints pick for a stored name
ReaderFor(filename) ==
  IF EndsWith(filename, <<DOT>> \o EXT_PDF) THEN "extract_table_from_pdf"
  ELSE IF EndsWith(filename, <<DOT>> \o EXT_CSV) THEN "read_csv"
  ELSE "read_excel"

\* What reading a stored file did so far: whether the last reader called
\* raised, the error the handler reports then (the one the first reader
\* raised), the table the last reader returned and the readers called, in
\* order.
Read(result, readers) ==
  [raised |-> result.raised, error |-> result.error, df |-> result.df,
   readers |-> readers]

\* no reader was called yet
NoRead == Read(Return(EmptyFrame), <<>>)

\* the encodings tried on a CSV file, in order
ENCODINGS == <<"utf-8", "cp1251", "latin-1">>

\* the k-th call of the reader for filename, which finds file at the path
ReadAttempt(filename, file, k) ==
  IF ReaderFor(filename) = "extract_table_from_pdf"
  THEN extract_table_from_pdf(file)
  ELSE IF ReaderFor(filename) = "read_excel" THEN read_excel(file)
  ELSE read_csv(file, ENCODINGS[k])

\* one more call of the reader after those of read; the try / except keeps
\* the exception of the first call (raise e)
ReadNext(filename, file, read) ==
  LET k      == Len(read.readers) + 1
      result == ReadAttempt(filename, file, k)
  IN  [raised  |-> result.raised,
       error   |-> IF ~result.raised THEN ""
                   ELSE IF k = 1 THEN result.error ELSE read.error,
       df      |-> result.df,
       readers |-> read.readers \o <<ReaderFor(filename)>>]

\* the try / except around the readers is left: a reader returned, or the
\* file is no CSV file, or the last encoding was tried
ReadDone(filename, read) ==
  \/ ~read.raised
  \/ ReaderFor(filename) # "read_csv"
  \/ Len(read.readers) >= Len(ENCODINGS)

RECURSIVE ReadFrom(_, _, _)
ReadFrom(filename, file, read) ==
  LET next == ReadNext(filename, file, read)
  IN  IF ReadDone(filename, next) THEN next
      ELSE ReadFrom(filename, file, next)

\* the try / except around the readers while no request writes to the path:
\* a CSV file that utf-8 does not read is tried with cp1251 and then latin-1;
\* any other failure is final
ReadStored(filename, file) == ReadFrom(filename, file, NoRead)

\* ------------------------------------------------------ the bytes at a path
\* The bytes at a path are a sequence of units of one length.  A line of a
\* CSV file is one unit, [kind, enc, fields]: the texts of its fields and the
\* encoding of its bytes.  A file of another format is one block, reports
\* one block per part of their story: unit k of the file is
\* [kind, file, k].  A unit of zero bytes is NulUnit.  Every handle writes
\* from the start of the path on, so that position p of a path holds unit p
\* of a file that was written to it, or zero bytes.  The PDF and Excel files
\* of the uploads have one length, below one chunk.

NulUnit == [kind |-> "nul"]

LineUnit(enc, fields) == [kind |-> "line", enc |-> enc, fields |-> fields]

BlockUnit(file, k) == [kind |-> "block", file |-> file, k |-> k]

\* a path that was opened for writing and not written to
EmptyFile == [fmt |-> "empty", doc |-> <<>>, enc |-> "", df |-> EmptyFrame]

\* bytes that are no file of any format: blocks of several files, or a part
\* of the blocks of one
MixedFile == [fmt |-> "mixed", doc |-> <<>>, enc |-> "", df |-> EmptyFrame]

\* the text of a value in a CSV file; a missing value is an empty field
FieldText(c) == IF IsNull(c) THEN "" ELSE c.v

\* the fields a line of data carries before those the header names: the
\* label of its row
IndexFields(lead, label) ==
  IF lead = 0 THEN <<>>
  ELSE IF lead = 1 THEN <<FieldText(label)>>
  ELSE [j \in 1..lead |-> FieldText(label[j])]

\* the bytes of a file, in units
PartsOf(file) ==
  IF file.fmt = "csv"
  THEN <<LineUnit(file.enc,
                  [c \in 1..Len(file.df.cols) |->
                     FieldText(file.df.cols[c].label)])>>
       \o [r \in 1..NRows(file.df) |->
             LineUnit(file.enc,
                      IndexFields(file.lead, file.df.index[r])
                      \o [c \in 1..Len(file.df.cols) |->
                            FieldText(file.df.cols[c].cells[r])])]
  ELSE IF file.fmt = "report"
  THEN [k \in 1..Len(file.report) |-> BlockUnit(file, k)]
  ELSE IF file.fmt \in {"empty", "none"} THEN <<>>
  ELSE <<BlockUnit(file, 1)>>

\* f.write(data) through a handle at offset off: the bytes of data replace
\* those at off + 1 .. off + Len(data), the bytes after them stay; when the
\* path has been cut below off since the handle was opened, the gap reads as
\* zero bytes
WriteAt(content, off, data) ==
  [p \in 1..(IF Len(content) > off + Len(data)
             THEN Len(content) ELSE off + Len(data)) |->
     IF p > off /\ p <= off + Len(data) THEN data[p - off]
     ELSE IF p <= Len(content) THEN content[p]
     ELSE NulUnit]

\* the texts of numbers that read_csv takes as int64
IntegerText == {"12", "7"}

\* the texts read_csv takes as a missing value (its default na_values)
NaTexts == {"", "nan", "NaN"}

\* the texts of blanks only
SpaceTexts == {"", " ", "  ", "   "}

\* the digit of a number below ten
Digits == <<"0", "1", "2", "3", "4", "5", "6", "7", "8", "9">>

\* the label read_csv gives the c-th column when its header field is empty:
\* f"Unnamed: {i}" with the position i of the field, from 0
Unnamed(c) == "Unnamed: " \o Digits[c]

\* The line at position p has no byte but blanks: read_csv passes it over
\* (skip_blank_lines).  Zero bytes before a line belong to the line.
BlankLine(content, p) ==
  /\ ~(p > 1 /\ content[p - 1].kind = "nul")
  /\ \/ content[p].fields = <<>>
     \/ Len(content[p].fields) = 1 /\ content[p].fields[1] \in SpaceTexts

\* the positions of the lines read_csv reads in content, in order
LinesIn(content) ==
  SelectIdx(1, Len(content),
            {p \in 1..Len(content) :
               content[p].kind = "line" /\ ~BlankLine(content, p)})

\* The fields of the line at position p.  Zero bytes before a line belong to
\* its first field, and the C parser ends a field at its first zero byte:
\* the first field of such a line is empty.
FieldsAt(content, p) ==
  IF p > 1 /\ content[p - 1].kind = "nul" /\ Len(content[p].fields) > 0
  THEN [content[p].fields EXCEPT ![1] = ""]
  ELSE content[p].fields

\* The number of fields read_csv expects of the lines after the first line
\* of data: that of the header, or that of the first line of data when it
\* has more (the tokenizer does not check the first two lines).
ExpectedFields(content) ==
  LET ls == LinesIn(content)
      h  == Len(content[ls[1]].fields)
  IN  IF Len(ls) >= 2 /\ Len(content[ls[2]].fields) > h
      THEN Len(content[ls[2]].fields) ELSE h

\* the fields of a line before those the header names: read_csv takes them
\* as the index of the table
LeadingCols(content) ==
  ExpectedFields(content) - Len(content[LinesIn(content)[1]].fields)

\* a line after the first line of data with more fields than expected:
\* read_csv raises ParserError
TooManyFields(content) ==
  LET ls == LinesIn(content)
  IN  \E k \in 3..Len(ls) :
        Len(content[ls[k]].fields) > ExpectedFields(content)

\* the encoding that reads every line of content: the last in the order
\* utf-8, cp1251, latin-1 that a line carries, "broken" when no encoding
\* reads one of them
EncOf(content) ==
  LET encs == {content[p].enc : p \in {q \in 1..Len(content) :
                                          content[q].kind = "line"}}
  IN  IF "broken" \in encs THEN "broken"
      ELSE IF "latin-1" \in encs THEN "latin-1"
      ELSE IF "cp1251" \in encs THEN "cp1251"
      ELSE "utf-8"

\* the type read_csv infers for a column from the texts of its fields:
\* int64 when all are integers, float64 when all are numbers or missing,
\* object otherwise
InferDtype(texts) ==
  IF Len(texts) = 0 THEN "object"
  ELSE IF \A r \in 1..Len(texts) : texts[r] \in IntegerText THEN "int64"
  ELSE IF \A r \in 1..Len(texts) : texts[r] \in NumericText \cup NaTexts
  THEN "float64"
  ELSE "object"

\* the value read_csv makes of a field in a column of type dtype; a missing
\* value is NaN in every column
ParseField(dtype, text) ==
  IF text \in NaTexts THEN NAN
  ELSE IF dtype = "int64" THEN Val("int", text)
  ELSE IF dtype = "float64" THEN Val("float", text)
  ELSE StrV(text)

\* counts.get(name, 0)
CountOf(counts, name) == IF name \in DOMAIN counts THEN counts[name] ELSE 0

\* name is one of the names
IsNameOf(names, name) == \E k \in 1..Len(names) : names[k] = name

RECURSIVE RenameFrom(_, _, _, _)
\* The while loop that renames a column whose name old cur columns before
\* it have: it tries old.cur, goes on to the next number when a header
\* field is that text, and starts again from the count of the text when a
\* column before was given it.  It ends with a name no column has.
RenameFrom(old, cur, names, counts) ==
  LET col    == old \o "." \o Digits[cur + 1]
      counts_ == Put(counts, old, cur + 1)
  IN  IF IsNameOf(names, col) THEN RenameFrom(old, cur + 1, names, counts_)
      ELSE IF CountOf(counts_, col) > 0
      THEN RenameFrom(old, CountOf(counts_, col), names, counts_)
      ELSE [name |-> col, counts |-> Put(counts_, col, 1)]

\* one pass of the loop over the header fields: the name of field i, with
\* names the names as they are now and counts the columns per name so far
Renamed(i, names, counts) ==
  IF CountOf(counts, names[i]) = 0
  THEN [name |-> names[i], counts |-> Put(counts, names[i], 1)]
  ELSE RenameFrom(names[i], CountOf(counts, names[i]), names, counts)

RECURSIVE DedupFrom(_, _, _, _)
\* the loop over the header fields from the k-th of order on
DedupFrom(order, k, names, counts) ==
  IF k > Len(order) THEN names
  ELSE LET r == Renamed(order[k], names, counts)
       IN  DedupFrom(order, k + 1, [names EXCEPT ![order[k]] = r.name],
                     r.counts)

\* The labels read_csv gives the columns of a header: an empty field is
\* named by its position, and a name given twice is told apart (n, n.1);
\* the fields with a name are gone over before the empty ones.
ColumnNames(header) ==
  LET positions == 1..Len(header)
      named     == SelectIdx(1, Len(header), {c \in positions : header[c] # ""})
      unnamed   == SelectIdx(1, Len(header), {c \in positions : header[c] = ""})
  IN  DedupFrom(named \o unnamed, 1,
                [c \in positions |->
                   IF header[c] = "" THEN Unnamed(c) ELSE header[c]],
                EmptyDict)

\* The table read_csv parses from the lines of content: the first line is
\* the header, the fields of a line that come after its leading ones are the
\* values of the columns the header names, a line with fewer fields is
\* filled with missing values.  The rows are labelled with their numbers from
\* 0; with leading fields the label of a row is the value of its leading
\* field, the tuple of them when there are several.
ParseLines(content) ==
  LET ls      == LinesIn(content)
      header  == FieldsAt(content, ls[1])
      lead    == LeadingCols(content)
      n       == Len(ls) - 1
      names   == ColumnNames(header)
      lines   == [r \in 1..n |-> FieldsAt(content, ls[r + 1])]
      texts(c) == [r \in 1..n |->
                     IF c <= Len(lines[r]) THEN lines[r][c] ELSE ""]
      values(c) == LET text  == texts(c)
                       dtype == InferDtype(text)
                   IN  [dtype |-> dtype,
                        cells |-> [r \in 1..n |-> ParseField(dtype, text[r])]]
      labels  == [j \in 1..lead |-> values(j).cells]
  IN  DataFrame([r \in 1..n |->
                   IF lead = 0 THEN r - 1
                   ELSE IF lead = 1 THEN labels[1][r]
                   ELSE [j \in 1..lead |-> labels[j][r]]],
                [c \in 1..Len(header) |->
                   LET column == values(c + lead)
                   IN  Column(StrV(names[c]), column.dtype, column.cells, c)])

\* the file the bytes at a path are: none, a file of blocks when the blocks
\* are those of one file, a CSV file when the bytes end in a line and hold
\* nothing but lines and zero bytes; lines that are all passed over leave
\* read_csv no columns to parse
FileAt(content) ==
  IF content = <<>> THEN EmptyFile
  ELSE IF \A p \in 1..Len(content) : content[p].kind = "block"
  THEN (IF content = PartsOf(content[1].file) THEN content[1].file
        ELSE MixedFile)
  ELSE IF /\ \A p \in 1..Len(content) : content[p].kind \in {"line", "nul"}
          /\ content[Len(content)].kind = "line"
  THEN (IF LinesIn(content) = <<>> THEN EmptyFile
        ELSE IF TooManyFields(content) THEN CsvFile("broken", EmptyFrame)
        ELSE IndexedCsvFile(EncOf(content), ParseLines(content),
                            LeadingCols(content)))
  ELSE MixedFile

\* the files the readers find in an upload folder
FilesIn(folder) == [n \in DOMAIN folder |-> FileAt(folder[n])]

\* the bytes of the files of a folder
BytesOf(files) == [n \in DOMAIN files |-> PartsOf(files[n])]

\* df.replace(['', ' ', '  ', '   '], None) and
\* df.replace(['nan', 'NaN', 'NAN'], None)
BlankTexts == {"", " ", "  ", "   ", "nan", "NaN", "NAN"}

ReplaceBlanks(df) ==
  DataFrame(df.index,
            [c \in 1..Len(df.cols) |->
               [df.cols[c] EXCEPT
                  !.cells = [r \in 1..Len(df.cols[c].cells) |->
                               IF /\ df.cols[c].cells[r].t = "str"
                                  /\ df.cols[c].cells[r].v \in BlankTexts
                               THEN NONE ELSE df.cols[c].cells[r]]]])

\* the cleaning /upload does after reading
CleanUploaded(df) == ReplaceBlanks(WhereNotNull(DropNaCols(DropNaRows(df))))

\* the cleaning the analysis endpoints do after reading
CleanStored(df) == WhereNotNull(DropNaCols(DropNaRows(df)))

\* astype('str') on one value; the text of a Timestamp is a value of its
\* own type, "datetext"
AsStr(c) ==
  CASE c.t = "None"      -> StrV("None")
    [] c.t = "nan"       -> StrV("nan")
    [] c.t = "NaT"       -> StrV("NaT")
    [] c.t = "Timestamp" -> Val("datetext", c.v)
    [] OTHER             -> StrV(c.v)

\* the loop of convert_dataframe_to_json_safe on one column: datetimes
\* become texts, an object column becomes a float64 column when its first
\* value is a number and a column of texts otherwise; the columns of a label
\* carried twice become texts in the except clause
JsonSafeColumn(df, col) ==
  LET nn      == NonNull(col.cells)
      numbers == /\ LabelIsUnique(df, col.label)
                 /\ col.dtype = "object"
                 /\ Len(nn) > 0 /\ ~ToNumericRaises(nn[1])
      kept    == /\ LabelIsUnique(df, col.label)
                 /\ col.dtype \in {"int64", "float64", "bool"}
  IN  [col EXCEPT
         !.dtype = IF kept THEN col.dtype
                   ELSE IF numbers THEN "float64" ELSE "object",
         !.cells = [r \in 1..Len(col.cells) |->
                      IF kept THEN col.cells[r]
                      ELSE IF numbers THEN ToNumericCoerce(col.cells[r])
                      ELSE AsStr(col.cells[r])]]

\* hasattr(value, 'item') or hasattr(value, 'strftime') in the second loop:
\* the values of an int64, float64 or bool column are numpy scalars, NaN
\* included, and a Timestamp has strftime; a text, None and a Python number
\* have neither
WrittenBack(dtype, value) ==
  \/ dtype \in {"int64", "float64", "bool"}
  \/ value.t = "Timestamp"

\* value.item() of a numpy scalar, str(value) of a Timestamp
ItemOf(value) == IF value.t = "Timestamp" THEN AsStr(value) ELSE value

\* The second loop of convert_dataframe_to_json_safe on one column: pass i
\* reads the value at position i and, when it is a numpy scalar or a
\* Timestamp, writes it through df_clean.loc[df_clean.index[i], column],
\* that is to every row that carries the label of row i.  The passes run in
\* the order of the rows, so the rows of one label all end with the value
\* of the first of them that is written back: the pass of that row gives it
\* to all of them, and the later passes read it and write it again.  When
\* several columns carry the label, value is a row of them and value.item()
\* raises ValueError, which ends the loop of the column with nothing written.
ItemColumn(df, col) ==
  LET writers == {i \in 1..Len(col.cells) : WrittenBack(col.dtype, col.cells[i])}
  IN  IF ~LabelIsUnique(df, col.label) \/ writers = {} THEN col
      ELSE [col EXCEPT
              !.cells =
                [r \in 1..Len(col.cells) |->
                   LET written == {i \in writers : df.index[i] = df.index[r]}
                   IN  IF written = {} THEN col.cells[r]
                       ELSE ItemOf(col.cells[CHOOSE i \in written :
                                               \A k \in written : i <= k])]]

\* convert_dataframe_to_json_safe: the loop over the columns, then
\* df_clean.where(pd.notnull(df_clean), None), which leaves the NaN of the
\* float64 columns, then the second loop over the columns
convert_dataframe_to_json_safe(df) ==
  LET df_clean == WhereNotNull(DataFrame(df.index,
                    [c \in 1..Len(df.cols) |-> JsonSafeColumn(df, df.cols[c])]))
  IN  DataFrame(df_clean.index,
                [c \in 1..Len(df_clean.cols) |->
                   ItemColumn(df_clean, df_clean.cols[c])])

\* the columns that are the first to carry their label, in order
FirstOfLabel(df) ==
  SelectIdx(1, Len(df.cols),
            {c \in 1..Len(df.cols) :
               \A k \in 1..(c - 1) : df.cols[k].label # df.cols[c].label})

\* the last column that carries the label of column c
LastOfLabel(df, c) ==
  CHOOSE k \in c..Len(df.cols) :
    /\ df.cols[k].label = df.cols[c].label
    /\ \A j \in (k + 1)..Len(df.cols) : df.cols[j].label # df.cols[c].label

\* df.to_dict('records'): one dict per row.  A dict has one item per key: a
\* label that several columns carry is one key, at the place of the first of
\* them and with the value of the last.  The dict holds the items only; row
\* says which row of the table it was made of.
ToRecords(df) ==
  LET keys == FirstOfLabel(df)
  IN  [r \in 1..NRows(df) |->
         [row   |-> df.index[r],
          items |-> [i \in 1..Len(keys) |->
                       <<df.cols[keys[i]].label,
                         df.cols[LastOfLabel(df, keys[i])].cells[r]>>]]]

\* json.loads(df.to_json(orient='records', date_format='iso')): the records
\* of the rows with every missing value, NaN and NaT as well as None, written
\* as null and read back as None
ToJson(df) ==
  LET records == ToRecords(df)
  IN  [r \in 1..Len(records) |->
         [records[r] EXCEPT
            !.items = [i \in 1..Len(@) |->
                         <<@[i][1], IF IsNull(@[i][2]) THEN NONE ELSE @[i][2]>>]]]

\* ---------------------------------------------------------------- /upload

\* datetime.now().strftime("%Y%m%d_%H%M%S"): one text per second, of digits
\* and '_'; the model writes the second as one digit
Strftime(now) == <<Digits[now + 1]>>

\* f"{timestamp}_{filename}"
StoredName(now, filename) ==
  Strftime(now) \o <<"_">> \o secure_filename(filename)

\* a response: the HTTP status and the JSON body
Response(status, body) == [status |-> status, body |-> body]

ErrorBody(message) == [error |-> message]

\* What a request to /upload did: the response, the upload folder after it,
\* the name the file was stored under (<<>> when none was) and the readers
\* called, in order.
Handled(response, folder, stored, readers) ==
  [response |-> response, uploads |-> folder, stored |-> stored,
   readers |-> readers]

\* the success response of /upload reporting more data from 100 rows on
UploadSuccess_more_from_100(filename, df, data_types) ==
  Response(200,
    [success       |-> TRUE,
     filename      |-> filename,
     data          |-> ToJson(convert_dataframe_to_json_safe(
                                HeadRows(df, DISPLAY_ROWS))),
     columns       |-> [c \in 1..Len(df.cols) |-> df.cols[c].label],
     total_rows    |-> NRows(df),
     data_types    |-> data_types,
     has_more_data |-> NRows(df) >= DISPLAY_ROWS])

\* the success response of /upload for the cleaned table df
UploadSuccess(filename, df, data_types) ==
  Response(200,
    [success       |-> TRUE,
     filename      |-> filename,
     data          |-> ToJson(convert_dataframe_to_json_safe(
                                HeadRows(df, DISPLAY_ROWS))),
     columns       |-> [c \in 1..Len(df.cols) |-> df.cols[c].label],
     total_rows    |-> NRows(df),
     data_types    |-> data_types,
     has_more_data |-> NRows(df) > DISPLAY_ROWS])

\* the error of the checks upload_file makes before it saves the file, "" when
\* the request passes them
UploadRejection(req) ==
  IF ~req.has_file THEN "no file"
  ELSE IF req.filename = <<>> THEN "no file"
  ELSE IF ~allowed_file(req.filename) THEN "type"
  ELSE ""

\* upload_file from the cleaning of the table on: filename is the stored
\* name, read what the readers did and folder the files of the upload folder.
\* get_basic_analytics, create_charts and get_available_categories are taken
\* to return.
upload_answer(filename, read, folder) ==
  LET df       == CleanUploaded(read.df)
      detected == detect_data_types(df)
  IN  IF read.raised
      THEN Handled(Response(500, ErrorBody(read.error)), folder, filename,
                   read.readers)
      ELSE IF detected.raised
      THEN Handled(Response(500, ErrorBody("AttributeError")), folder,
                   filename, read.readers)
      ELSE Handled(UploadSuccess(filename, df, detected.data_types), folder,
                   filename, read.readers)

\* upload_file from the reading of the saved file on, while no request
\* writes to the path
upload_read(filename, folder) ==
  upload_answer(filename, ReadStored(filename, folder[filename]), folder)

\* upload_file handling one request with no other request under way: req is
\* [has_file, filename, file], folder the files of the upload folder and now
\* the second of the clock
upload_file(req, folder, now) ==
  IF UploadRejection(req) # ""
  THEN Handled(Response(400, ErrorBody(UploadRejection(req))), folder, <<>>,
               <<>>)
  ELSE LET filename == StoredName(now, req.filename)
       IN  upload_read(filename,
                       Put(folder, filename, FileAt(PartsOf(req.file))))

\* ------------------------------------ /yandex_analysis, /gigachat_analysis
\* A request is [json, filename]: json says whether the body is JSON,
\* filename is the 'filename' field, <<>> when it is missing or empty.

\* the table_data the analysis endpoints hand to the wrapper
SampleOf(df) ==
  ToRecords(convert_dataframe_to_json_safe(HeadRows(CleanStored(df), SAMPLE_ROWS)))

\* -------------------------------------------------------------- /load_more
\* A request is [json, filename, start_row, rows_count]; start_row and
\* rows_count are [given, v]: given says whether the body has the field.

\* data.get('rows_count', 100)
DEFAULT_ROWS_COUNT == 100

Field(given, v) == [given |-> given, v |-> v]

\* data.get(key, default)
GetOr(field, default) == IF field.given THEN field.v ELSE default

\* a bound of a Python slice over n items: a negative bound counts from the
\* end, and every bound is clipped to 0..n
SliceBound(k, n) ==
  IF k < 0 THEN (IF k + n < 0 THEN 0 ELSE k + n)
  ELSE IF k > n THEN n ELSE k

\* df.iloc[start:stop]
ILocRows(df, start, stop) ==
  LET lo == SliceBound(start, NRows(df))
      hi == SliceBound(stop, NRows(df))
  IN  TakeRows(df, [k \in 1..(IF hi > lo THEN hi - lo ELSE 0) |-> lo + k])

\* the reading load_more_data does: one reader, utf-8 only, no second try
ReadOnce(filename, file) ==
  LET reader == ReaderFor(filename)
  IN  IF reader = "extract_table_from_pdf"
      THEN Read(extract_table_from_pdf(file), <<reader>>)
      ELSE IF reader = "read_csv"
      THEN Read(read_csv(file, "utf-8"), <<reader>>)
      ELSE Read(read_excel(file), <<reader>>)

\* to_json(orient='records') refuses a table with a label carried twice
ToJsonRaises(df) ==
  \E c \in 1..Len(df.cols) : ~LabelIsUnique(df, df.cols[c].label)

\* the success response of /load_more for the cleaned table df
LoadMoreSuccess(df, start_row, rows_count) ==
  LET end_row  == Min(start_row + rows_count, NRows(df))
      df_slice == ILocRows(df, start_row, end_row)
  IN  Response(200,
        [success       |-> TRUE,
         data          |-> ToJson(convert_dataframe_to_json_safe(df_slice)),
         start_row     |-> start_row,
         end_row       |-> end_row,
         has_more_data |-> end_row < NRows(df)])

\* load_more_data
load_more_data(req, folder) ==
  IF ~req.json THEN Response(500, ErrorBody("exception"))
  ELSE IF req.filename = <<>> THEN Response(400, ErrorBody("no filename"))
  ELSE IF req.filename \notin DOMAIN folder
  THEN Response(404, ErrorBody("not found"))
  ELSE
    LET read == ReadOnce(req.filename, folder[req.filename])
        df   == CleanStored(read.df)
    IN  IF read.raised THEN Response(500, ErrorBody(read.error))
        ELSE IF ToJsonRaises(df) THEN Response(500, ErrorBody("ValueError"))
        ELSE LoadMoreSuccess(df, GetOr(req.start_row, 0),
                             GetOr(req.rows_count, DEFAULT_ROWS_COUNT))

\* ----------------------------------------------------------- /generate_pdf
\* A request is [json, filename, yandex_analysis, gigachat_analysis]; the two
\* analysis fields are texts, sequences of characters, <<>> when the field is
\* missing or empty.  A report is the sequence of the parts written into
\* it, each [part, text].

\* df.head(50)
REPORT_ROWS == 50

\* 'Здесь появится вывод от нейросети', as one token
PLACEHOLDER == <<"placeholder">>

\* the texts of the analysis fields: empty, the placeholder, blanks, a text
AnalysisTexts == {<<>>, PLACEHOLDER, <<" ", " ">>, <<"t">>}

\* white space, for str.strip()
Whitespace == {" "}

Part(part, text) == [part |-> part, text |-> text]

\* a Python dict of the entries of pairs (<<key, value, present>>) that are
\* present
DictOf(pairs) ==
  [k \in {p[1] : p \in {q \in pairs : q[3]}} |->
     (CHOOSE p \in pairs : p[1] = k)[2]]

\* the ai_analyses dict generate_pdf builds
AiAnalyses(yandex_text, gigachat_text) ==
  DictOf({ <<"yandex", yandex_text,
             yandex_text # <<>> /\ yandex_text # PLACEHOLDER>>,
           <<"gigachat", gigachat_text,
             gigachat_text # <<>> /\ gigachat_text # PLACEHOLDER>> })

\* PDFReportGenerator._add_ai_analysis_section
add_ai_analysis_section(ai_analyses) ==
  <<Part("ai title", <<>>)>>
  \o (IF "yandex" \in DOMAIN ai_analyses
         /\ Strip(ai_analyses["yandex"], Whitespace) # <<>>
      THEN <<Part("ai yandex", ai_analyses["yandex"])>> ELSE <<>>)
  \o (IF "gigachat" \in DOMAIN ai_analyses
         /\ Strip(ai_analyses["gigachat"], Whitespace) # <<>>
      THEN <<Part("ai gigachat", ai_analyses["gigachat"])>> ELSE <<>>)

\* the story PDFReportGenerator.generate_report builds from pdf_data; the
\* analytics dict of get_basic_analytics is never empty
generate_report(pdf_data) ==
  <<Part("title", pdf_data.filename)>>
  \o (IF pdf_data.table_data # <<>> THEN <<Part("data", <<>>)>> ELSE <<>>)
  \o <<Part("analytics", <<>>)>>
  \o (IF DOMAIN pdf_data.ai_analyses # {}
      THEN add_ai_analysis_section(pdf_data.ai_analyses) ELSE <<>>)

\* the file a written report is
ReportFile(story) ==
  [fmt |-> "report", doc |-> <<>>, enc |-> "", df |-> EmptyFrame,
   report |-> story]

\* f"analytics_report_{timestamp}.pdf"
ReportName(now) ==
  <<"analytics_report_">> \o Strftime(now) \o <<DOT>> \o EXT_PDF

\* the error of the checks generate_pdf makes before it reads the file, ""
\* when the request passes them; folder is the upload folder
ReportRejection(req, folder) ==
  IF ~req.json THEN "exception"
  ELSE IF req.filename = <<>> THEN "no filename"
  ELSE IF req.filename \notin DOMAIN folder THEN "not found"
  ELSE ""

\* the response to a request that does not pass the checks
ReportRejected(req, folder) ==
  Response(CASE ReportRejection(req, folder) = "exception"   -> 500
             [] ReportRejection(req, folder) = "no filename" -> 400
             [] OTHER                                        -> 404,
           ErrorBody(ReportRejection(req, folder)))

\* the pdf_data generate_pdf builds from the table it read
PdfData(req, df) ==
  [filename    |-> req.filename,
   total_rows  |-> NRows(df),
   table_data  |-> ToRecords(convert_dataframe_to_json_safe(
                               HeadRows(df, REPORT_ROWS))),
   ai_analyses |-> AiAnalyses(req.yandex_analysis, req.gigachat_analysis)]

\* the responses of generate_pdf after the file was read
ReportFailed == Response(500, [success |-> FALSE, error |-> "report"])

ReportCreated(pdf_filename) ==
  Response(200, [success |-> TRUE, pdf_filename |-> pdf_filename,
                 message |-> "created"])

\* ------------------------------------------------------- upload requests

NamePdf         == <<"a", ".", "p", "d", "f">>
NamePdfUpper    == <<"a", ".", "P", "D", "F">>
NameCyrPdf      == <<CYR, ".", "p", "d", "f">>
NameCsv         == <<"a", ".", "c", "s", "v">>
NameCsvSpace    == <<"a", " ", "b", ".", "c", "s", "v">>
NameDotCsv      == <<".", "c", "s", "v">>
NameXlsx        == <<"a", ".", "x", "l", "s", "x">>
NameXlsUpper    == <<"a", ".", "X", "L", "S">>
NameTxt         == <<"a", ".", "t", "x", "t">>
NameNoDot       == <<"p", "d", "f">>
NameTrailingDot == <<"a", ".", "p", "d", "f", ".">>

\* the table of a CSV file of two lines
FrameShort ==
  DataFrame(<<0>>,
            << Column(StrV("n"), "float64", <<Val("float", "12.5")>>, 1),
               Column(StrV("t"), "object", <<StrV("x")>>, 2) >>)

\* the table of the CSV and Excel files: its second row is empty
FrameSales ==
  DataFrame(<<0, 1, 2>>,
            << Column(StrV("n"), "float64",
                      <<Val("float", "12"), NAN, Val("float", "7")>>, 1),
               Column(StrV("t"), "object",
                      <<StrV("abc"), NAN, StrV(" ")>>, 2) >>)

PdfGood       == PdfFile(<< <<TableMixed>> >>)
PdfNoPages    == PdfFile(<< >>)
PdfNoTable    == PdfFile(<< <<>> >>)
PdfEmptyTable == PdfFile(<< <<TableEmpty>> >>)
PdfHeaderOnly == PdfFile(<< <<TableHeaderOnly>> >>)
PdfDupHeader  == PdfFile(<< <<TableDupHeader>> >>)

NoFile == [fmt |-> "none", doc |-> <<>>, enc |-> "", df |-> EmptyFrame]

Request(has_file, filename, file) ==
  [has_file |-> has_file, filename |-> filename, file |-> file]

\* The requests to /upload: no file part, an empty file name, and files
\* whose content is of the format their name says; under the name a.csv,
\* files of four and of two lines.
UploadRequests ==
  {Request(FALSE, <<>>, NoFile), Request(TRUE, <<>>, PdfGood)}
  \cup {Request(TRUE, NamePdf, f) :
          f \in {PdfGood, PdfNoPages, PdfNoTable, PdfEmptyTable,
                 PdfHeaderOnly, PdfDupHeader}}
  \cup {Request(TRUE, n, PdfGood) :
          n \in {NamePdfUpper, NameCyrPdf, NameNoDot, NameTrailingDot}}
  \cup {Request(TRUE, NameCsv, CsvFile(enc, FrameSales)) :
          enc \in {"utf-8", "cp1251", "latin-1", "broken"}}
  \cup {Request(TRUE, NameCsv, CsvFile("utf-8", FrameShort))}
  \cup {Request(TRUE, n, CsvFile("utf-8", FrameSales)) :
          n \in {NameCsvSpace, NameDotCsv, NameTxt}}
  \cup {Request(TRUE, n, ExcelFile(FrameSales)) : n \in {NameXlsx, NameXlsUpper}}

\* ------------------------------------------------------------------ state
\* uploads: the upload folder, a function from stored names to the bytes
\*          at the path, in units
\* clock:   the second datetime.now() is in
\* resp:    per endpoint, the last request and its response
\* call:    the last direct call of a function, its arguments and result
\* client:  the paging client: the file it pages through, the start_row of
\*          its next request, the rows it received and its last response
\* threads: the server starts a thread for each request; the bag of the
\*          threads it started, each with the step its handler is at (pc)
\*          and what the handler holds there

NoCall == [fn |-> "none"]

NoClient == [paging |-> FALSE]

\* a thread whose handler has returned
Done == [pc |-> "done"]

\* the handler th goes on as next, or returns
Goes(th, next) == (threads (-) SetToBag({th})) (+) SetToBag({next})
Returns(th) == Goes(th, Done)

\* a thread is started for a request; its handler begins as th
Starts(th) == threads' = threads (+) SetToBag({th})

\* a thread is started for one of the MaxThreads requests to /upload and
\* /generate_pdf
Takes(th) ==
  /\ BagCardinality(threads) < MaxThreads
  /\ Starts(th)

Init ==
  /\ uploads = EmptyDict
  /\ clock = 0
  /\ resp = EmptyDict
  /\ call = NoCall
  /\ client = NoClient
  /\ threads = EmptyBag

\* ------------------------------------------ the functions, called directly
\* One call per behaviour: a call is made while none has been made.

CallDetectDataTypes ==
  /\ call = NoCall
  /\ \E df \in DetectInputs :
       call' = [fn |-> "detect_data_types", df |-> df,
                ret |-> detect_data_types(df)]
  /\ UNCHANGED <<uploads, clock, resp, client, threads>>

CallExtractTable ==
  /\ call = NoCall
  /\ \E file \in ExtractInputs :
       call' = [fn |-> "extract_table_from_pdf", file |-> file,
                ret |-> extract_table_from_pdf(file)]
  /\ UNCHANGED <<uploads, clock, resp, client, threads>>

CallCreateYandex ==
  /\ call = NoCall
  /\ \E env \in Envs :
       call' = [fn |-> "create_yandex_analyzer", env |-> env,
                ret |-> create_yandex_analyzer(env)]
  /\ UNCHANGED <<uploads, clock, resp, client, threads>>

CallCreateGigaChat ==
  /\ call = NoCall
  /\ \E env \in Envs :
       call' = [fn |-> "create_gigachat_analyzer", env |-> env,
                ret |-> create_gigachat_analyzer(env)]
  /\ UNCHANGED <<uploads, clock, resp, client, threads>>

CallYandexAnalyze ==
  /\ call = NoCall
  /\ \E td \in TableDataInputs, fname \in FilenameArgs, remote \in RemoteOutcomes :
       call' = [fn |-> "yandex.analyze_table_data", table_data |-> td,
                filename |-> fname, remote |-> remote,
                ret |-> yandex_analyze_table_data(td, fname, remote)]
  /\ UNCHANGED <<uploads, clock, resp, client, threads>>

CallGigaChatAnalyze ==
  /\ call = NoCall
  /\ \E td \in TableDataInputs, fname \in FilenameArgs, remote \in RemoteOutcomes :
       call' = [fn |-> "gigachat.analyze_table_data", table_data |-> td,
                filename |-> fname, remote |-> remote,
                ret |-> gigachat_analyze_table_data(td, fname, remote)]
  /\ UNCHANGED <<uploads, clock, resp, client, threads>>

\* detect_data_types is called and comes to its loop
DetectEnter ==
  /\ call = NoCall
  /\ \E df \in DetectInputs :
       call' = [fn |-> "detect_data_types loop", loop |-> DetectLoop(df)]
  /\ UNCHANGED <<uploads, clock, resp, client, threads>>

\* the loop of detect_data_types makes a pass
DetectIterate ==
  /\ call.fn = "detect_data_types loop"
  /\ ~call.loop.ended
  /\ call' = [call EXCEPT !.loop = DetectPass(@)]
  /\ UNCHANGED <<uploads, clock, resp, client, threads>>

\* extract_table_from_pdf is called on a file it returns a table of and
\* comes to its typing loop
TypeEnter ==
  /\ call = NoCall
  /\ \E file \in ExtractInputs :
       /\ ~extract_table_from_pdf(file).raised
       /\ call' = [fn |-> "typing loop",
                   loop |-> TypeLoop(UntypedFrame(ExaminedPage(file.doc)[1]))]
  /\ UNCHANGED <<uploads, clock, resp, client, threads>>

\* the typing loop makes a pass
TypeIterate ==
  /\ call.fn = "typing loop"
  /\ ~call.loop.ended
  /\ call' = [call EXCEPT !.loop = TypePass(@)]
  /\ UNCHANGED <<uploads, clock, resp, client, threads>>

NextFn ==
  \/ CallDetectDataTypes
  \/ CallExtractTable
  \/ DetectEnter
  \/ DetectIterate
  \/ TypeEnter
  \/ TypeIterate
  \/ CallCreateYandex
  \/ CallCreateGigaChat
  \/ CallYandexAnalyze
  \/ CallGigaChatAnalyze

SpecFn == Init /\ [][NextFn]_vars


\* ------------------------------------------------------ the upload service

\* The handler of /upload runs in steps that the steps of other requests
\* come between: it checks the request and answers 400, or it opens the path
\* of the file, then writes the file chunk by chunk, then calls the readers
\* one after the other and answers.  The os.path.getsize calls between
\* them choose nrows for files above 10 MB, which the model has none of, and
\* give the size fields of the response, which the model leaves out with
\* the analytics and the charts.

\* the entry of resp for an answered request to /upload; file is the file
\* that was at the path when the last reader was called
UploadEntry(req, h, file) ==
  [req |-> req, response |-> h.response, stored |-> h.stored,
   readers |-> h.readers, file |-> file]

\* a request that does not pass the checks is answered 400
RejectOf(requests) ==
  \E req \in requests :
    /\ UploadRejection(req) # ""
    /\ Takes(Done)
    /\ resp' = Put(resp, "upload",
                   UploadEntry(req, upload_file(req, FilesIn(uploads), clock),
                               NoFile))
    /\ UNCHANGED <<uploads, clock, call, client>>

\* the handler of a request that passed the checks, as it begins to save
\* the file under the name of the second now
Saving(req, now) ==
  [pc |-> "save", req |-> req, filename |-> StoredName(now, req.filename),
   off |-> 0]

\* A request that passes the checks opens its path, which cuts the path to
\* no bytes.  Its stored name is of the second now in which the handler
\* read the clock, the present one or one before.
OpenOf(requests) ==
  \E req \in requests, now \in 0..clock :
    /\ UploadRejection(req) = ""
    /\ Takes(Saving(req, now))
    /\ uploads' = Put(uploads, StoredName(now, req.filename), <<>>)
    /\ UNCHANGED <<clock, resp, call, client>>

\* a thread that has its path open writes the next chunk of the file of its
\* request, at the offset of its handle; after the last chunk it goes on to
\* read the path
UploadWrite ==
  \E th \in BagToSet(threads) :
    /\ th.pc = "save"
    /\ LET parts == PartsOf(th.req.file)
           upto  == Min(th.off + CHUNK_UNITS, Len(parts))
       IN  /\ uploads' =
                Put(uploads, th.filename,
                    WriteAt(uploads[th.filename], th.off,
                            SubSeq(parts, th.off + 1, upto)))
           /\ threads' =
                Goes(th, IF upto = Len(parts)
                         THEN [pc |-> "read", req |-> th.req,
                               filename |-> th.filename, read |-> NoRead]
                         ELSE [th EXCEPT !.off = upto])
    /\ UNCHANGED <<clock, resp, call, client>>

\* thread th, which has written its file, calls the next reader on the
\* bytes that are at the path now; when the try / except is left with that,
\* it answers
ReadBy(th) ==
  /\ th.pc = "read"
  /\ LET file == FileAt(uploads[th.filename])
         read == ReadNext(th.filename, file, th.read)
     IN  IF ReadDone(th.filename, read)
         THEN /\ resp' = Put(resp, "upload",
                             UploadEntry(th.req,
                                         upload_answer(th.filename, read,
                                                       FilesIn(uploads)),
                                         file))
              /\ threads' = Returns(th)
         ELSE /\ resp' = resp
              /\ threads' = Goes(th, [th EXCEPT !.read = read])
  /\ UNCHANGED <<uploads, clock, call>>

UploadRead ==
  \E th \in BagToSet(threads) : ReadBy(th) /\ UNCHANGED client

UploadReject == RejectOf(UploadRequests)

UploadOpen == OpenOf(UploadRequests)

\* a second passes
Tick ==
  /\ clock < MaxClock
  /\ clock' = clock + 1
  /\ UNCHANGED <<uploads, resp, call, client, threads>>

Next == UploadReject \/ UploadOpen \/ UploadWrite \/ UploadRead \/ Tick

Spec == Init /\ [][Next]_vars


\* ---------------------------------------------------- the analysis service
\* The upload folder is as one request to /upload left it.  Each analysis
\* endpoint takes one request, and one request to /upload stores a file
\* meanwhile.  The handler
\* of an analysis endpoint runs in steps that the steps of other requests
\* come between: it checks the request, checks that the file exists, calls
\* the readers one after the other, creates the analyzer, calls the wrapper,
\* which sends the prompt and waits for the service, and answers.  The thread
\* of a handler is [pc, endpoint, req] and what the handler holds at pc.

\* the uploads that are stored while other requests are handled: two files
\* of the same client name and different content, and a PDF without pages
SourceUploads ==
  {Request(TRUE, NameCsv, CsvFile("utf-8", FrameShort)),
   Request(TRUE, NameCsv, CsvFile("cp1251", FrameSales)),
   Request(TRUE, NamePdf, PdfNoPages)}

SourceFolders ==
  {BytesOf(upload_file(req, EmptyDict, 0).uploads) : req \in SourceUploads}

FoldersAfterUpload ==
  {BytesOf(upload_file(req, EmptyDict, 0).uploads) : req \in UploadRequests}

InitAnalysis ==
  /\ uploads \in FoldersAfterUpload
  /\ clock = 0
  /\ resp = EmptyDict
  /\ call = NoCall
  /\ client = NoClient
  /\ threads = EmptyBag

\* a stored name that is in no folder
AbsentName == StoredName(0, NameTxt)

\* the requests to the analysis endpoints: one without a JSON body, one
\* without a filename, one for a file that is not stored and one for every
\* stored file
AnalysisRequests ==
  {[json |-> FALSE, filename |-> <<>>]}
  \cup {[json |-> TRUE, filename |-> f] :
          f \in {<<>>, AbsentName} \cup DOMAIN uploads}

\* the environments of the analysis endpoints: at most one setting wrong
AnalysisEnvs ==
  {env \in Envs :
     Cardinality({f \in DOMAIN env : ~env[f]}) <= 1}

Endpoints == {"yandex", "gigachat"}

\* the thread of the request to endpoint e among the threads ths
HandlerOf(e, ths) ==
  LET hs == {th \in BagToSet(ths) :
               "endpoint" \in DOMAIN th /\ th.endpoint = e}
  IN  IF hs = {} THEN [pc |-> "none"] ELSE CHOOSE th \in hs : TRUE

\* the wrapper was not called
NotCalled == Outcome(Failure("not called"), <<>>)

\* the entry of resp for an answered analysis request: at is the step the
\* handler returned at, done what its call of the wrapper did
AnalysisEntry(req, response, at, done) ==
  [req |-> req, response |-> response, at |-> at, done |-> done]

\* a request to /upload stores a file while the analysis requests are
\* handled
AnalysisUpload ==
  /\ \A th \in BagToSet(threads) : "endpoint" \in DOMAIN th
  /\ \E req \in SourceUploads :
       /\ Starts(Saving(req, 0))
       /\ uploads' = Put(uploads, StoredName(0, req.filename), <<>>)
  /\ UNCHANGED <<clock, resp, call, client>>

\* yandex_analysis: request.get_json(), data.get('filename') and the check
\* of the filename
YandexBegin ==
  /\ HandlerOf("yandex", threads).pc = "none"
  /\ \E req \in AnalysisRequests :
       IF ~req.json
       THEN /\ Starts([pc |-> "analysis done", endpoint |-> "yandex"])
            /\ resp' = Put(resp, "yandex",
                           AnalysisEntry(req,
                             Response(500, [error |-> "yandex: exception"]),
                             "begin", NotCalled))
       ELSE IF req.filename = <<>>
       THEN /\ Starts([pc |-> "analysis done", endpoint |-> "yandex"])
            /\ resp' = Put(resp, "yandex",
                           AnalysisEntry(req,
                             Response(400, [error |-> "no filename"]),
                             "begin", NotCalled))
       ELSE /\ Starts([pc |-> "analysis exists", endpoint |-> "yandex",
                       req |-> req])
            /\ resp' = resp
  /\ UNCHANGED <<uploads, clock, call, client>>

\* yandex_analysis: os.path.exists(filepath)
YandexExists ==
  \E th \in BagToSet(threads) :
    /\ th.pc = "analysis exists" /\ th.endpoint = "yandex"
    /\ IF th.req.filename \notin DOMAIN uploads
       THEN /\ threads' = Goes(th, [pc |-> "analysis done",
                                    endpoint |-> "yandex"])
            /\ resp' = Put(resp, "yandex",
                           AnalysisEntry(th.req,
                             Response(404, [error |-> "not found"]),
                             "exists", NotCalled))
       ELSE /\ threads' = Goes(th, [pc |-> "analysis read",
                                    endpoint |-> "yandex", req |-> th.req,
                                    read |-> NoRead])
            /\ resp' = resp
    /\ UNCHANGED <<uploads, clock, call, client>>

\* yandex_analysis: the next reader is called on the bytes that are at the
\* path now; when the try / except is left with a table, the handler cleans
\* it and takes its first rows
YandexRead ==
  \E th \in BagToSet(threads) :
    /\ th.pc = "analysis read" /\ th.endpoint = "yandex"
    /\ LET read == ReadNext(th.req.filename,
                            FileAt(uploads[th.req.filename]), th.read)
       IN  IF ~ReadDone(th.req.filename, read)
           THEN /\ threads' = Goes(th, [th EXCEPT !.read = read])
                /\ resp' = resp
           ELSE IF read.raised
           THEN /\ threads' = Goes(th, [pc |-> "analysis done",
                                        endpoint |-> "yandex"])
                /\ resp' = Put(resp, "yandex",
                               AnalysisEntry(th.req,
                                 Response(500, [error |-> read.error]),
                                 "read", NotCalled))
           ELSE /\ threads' = Goes(th, [pc |-> "analysis create",
                                        endpoint |-> "yandex", req |-> th.req,
                                        table_data |-> SampleOf(read.df)])
                /\ resp' = resp
    /\ UNCHANGED <<uploads, clock, call, client>>

\* yandex_analysis going on without an analyzer
YandexCreate_unchecked ==
  \E th \in BagToSet(threads), env \in AnalysisEnvs :
    /\ th.pc = "analysis create" /\ th.endpoint = "yandex"
    /\ threads' = Goes(th, [pc |-> "analysis call", endpoint |-> "yandex",
                            req |-> th.req, table_data |-> th.table_data,
                            analyzer |-> create_yandex_analyzer(env).analyzer])
    /\ UNCHANGED <<uploads, clock, resp, call, client>>

\* yandex_analysis: create_yandex_analyzer() and the check of what it
\* returned
YandexCreate ==
  \E th \in BagToSet(threads), env \in AnalysisEnvs :
    /\ th.pc = "analysis create" /\ th.endpoint = "yandex"
    /\ LET analyzer == create_yandex_analyzer(env).analyzer
       IN  IF analyzer = "None"
           THEN /\ threads' = Goes(th, [pc |-> "analysis done",
                                        endpoint |-> "yandex"])
                /\ resp' = Put(resp, "yandex",
                               AnalysisEntry(th.req,
                                 Response(500, [error |-> "yandex: no analyzer"]),
                                 "create", NotCalled))
           ELSE /\ threads' = Goes(th, [pc |-> "analysis call",
                                        endpoint |-> "yandex", req |-> th.req,
                                        table_data |-> th.table_data,
                                        analyzer |-> analyzer])
                /\ resp' = resp
    /\ UNCHANGED <<uploads, clock, call, client>>

\* yandex_analysis: analyzer.analyze_table_data(table_data, filename) is
\* called; it sends its prompt and waits for the service, whose outcome
\* will be remote
YandexCall ==
  \E th \in BagToSet(threads), remote \in RemoteOutcomes :
    /\ th.pc = "analysis call" /\ th.endpoint = "yandex"
    /\ threads' = Goes(th, [pc |-> "analysis wait", endpoint |-> "yandex",
                            req |-> th.req,
                            done |-> yandex_analyze_table_data(
                                       th.table_data, th.req.filename, remote)])
    /\ UNCHANGED <<uploads, clock, resp, call, client>>

\* yandex_analysis: the wrapper returned, the handler answers
YandexAnswer ==
  \E th \in BagToSet(threads) :
    /\ th.pc = "analysis wait" /\ th.endpoint = "yandex"
    /\ threads' = Goes(th, [pc |-> "analysis done", endpoint |-> "yandex"])
    /\ resp' =
         Put(resp, "yandex",
             AnalysisEntry(th.req,
               IF th.done.raised
               THEN Response(500, [error |-> "yandex: exception"])
               ELSE IF th.done.ret.success
               THEN Response(200,
                      [success  |-> TRUE,
                       analysis |-> [status   |-> "completed",
                                     message  |-> "done",
                                     content  |-> th.done.ret.analysis,
                                     model    |-> th.done.ret.model,
                                     filename |-> th.done.ret.filename]])
               ELSE Response(500, [success |-> FALSE,
                                   error   |-> th.done.ret.error]),
               "wait", th.done))
    /\ UNCHANGED <<uploads, clock, call, client>>

\* gigachat_analysis: request.get_json(), data.get('filename') and the check
\* of the filename
GigaChatBegin ==
  /\ HandlerOf("gigachat", threads).pc = "none"
  /\ \E req \in AnalysisRequests :
       IF ~req.json
       THEN /\ Starts([pc |-> "analysis done", endpoint |-> "gigachat"])
            /\ resp' = Put(resp, "gigachat",
                           AnalysisEntry(req,
                             Response(500, [error |-> "gigachat: exception"]),
                             "begin", NotCalled))
       ELSE IF req.filename = <<>>
       THEN /\ Starts([pc |-> "analysis done", endpoint |-> "gigachat"])
            /\ resp' = Put(resp, "gigachat",
                           AnalysisEntry(req,
                             Response(400, [error |-> "no filename"]),
                             "begin", NotCalled))
       ELSE /\ Starts([pc |-> "analysis exists", endpoint |-> "gigachat",
                       req |-> req])
            /\ resp' = resp
  /\ UNCHANGED <<uploads, clock, call, client>>

\* gigachat_analysis: os.path.exists(filepath)
GigaChatExists ==
  \E th \in BagToSet(threads) :
    /\ th.pc = "analysis exists" /\ th.endpoint = "gigachat"
    /\ IF th.req.filename \notin DOMAIN uploads
       THEN /\ threads' = Goes(th, [pc |-> "analysis done",
                                    endpoint |-> "gigachat"])
            /\ resp' = Put(resp, "gigachat",
                           AnalysisEntry(th.req,
                             Response(404, [error |-> "not found"]),
                             "exists", NotCalled))
       ELSE /\ threads' = Goes(th, [pc |-> "analysis read",
                                    endpoint |-> "gigachat", req |-> th.req,
                                    read |-> NoRead])
            /\ resp' = resp
    /\ UNCHANGED <<uploads, clock, call, client>>

\* gigachat_analysis: the next reader is called on the bytes that are at the
\* path now; when the try / except is left with a table, the handler cleans
\* it and takes its first rows
GigaChatRead ==
  \E th \in BagToSet(threads) :
    /\ th.pc = "analysis read" /\ th.endpoint = "gigachat"
    /\ LET read == ReadNext(th.req.filename,
                            FileAt(uploads[th.req.filename]), th.read)
       IN  IF ~ReadDone(th.req.filename, read)
           THEN /\ threads' = Goes(th, [th EXCEPT !.read = read])
                /\ resp' = resp
           ELSE IF read.raised
           THEN /\ threads' = Goes(th, [pc |-> "analysis done",
                                        endpoint |-> "gigachat"])
                /\ resp' = Put(resp, "gigachat",
                               AnalysisEntry(th.req,
                                 Response(500, [error |-> read.error]),
                                 "read", NotCalled))
           ELSE /\ threads' = Goes(th, [pc |-> "analysis create",
                                        endpoint |-> "gigachat",
                                        req |-> th.req,
                                        table_data |-> SampleOf(read.df)])
                /\ resp' = resp
    /\ UNCHANGED <<uploads, clock, call, client>>

\* gigachat_analysis: create_gigachat_analyzer() and the check of what it
\* returned
GigaChatCreate ==
  \E th \in BagToSet(threads), env \in AnalysisEnvs :
    /\ th.pc = "analysis create" /\ th.endpoint = "gigachat"
    /\ LET analyzer == create_gigachat_analyzer(env).analyzer
       IN  IF analyzer = "None"
           THEN /\ threads' = Goes(th, [pc |-> "analysis done",
                                        endpoint |-> "gigachat"])
                /\ resp' = Put(resp, "gigachat",
                               AnalysisEntry(th.req,
                                 Response(500,
                                          [error |-> "gigachat: no analyzer"]),
                                 "create", NotCalled))
           ELSE /\ threads' = Goes(th, [pc |-> "analysis call",
                                        endpoint |-> "gigachat",
                                        req |-> th.req,
                                        table_data |-> th.table_data,
                                        analyzer |-> analyzer])
                /\ resp' = resp
    /\ UNCHANGED <<uploads, clock, call, client>>

\* gigachat_analysis: analyzer.analyze_table_data(table_data, filename) is
\* called; it sends its prompt and waits for the service, whose outcome
\* will be remote
GigaChatCall ==
  \E th \in BagToSet(threads), remote \in RemoteOutcomes :
    /\ th.pc = "analysis call" /\ th.endpoint = "gigachat"
    /\ threads' = Goes(th, [pc |-> "analysis wait", endpoint |-> "gigachat",
                            req |-> th.req,
                            done |-> gigachat_analyze_table_data(
                                       th.table_data, th.req.filename, remote)])
    /\ UNCHANGED <<uploads, clock, resp, call, client>>

\* gigachat_analysis answering 200 when the wrapper reports a failure
GigaChatAnswer_failure_200 ==
  \E th \in BagToSet(threads) :
    /\ th.pc = "analysis wait" /\ th.endpoint = "gigachat"
    /\ threads' = Goes(th, [pc |-> "analysis done", endpoint |-> "gigachat"])
    /\ resp' =
         Put(resp, "gigachat",
             AnalysisEntry(th.req,
               IF th.done.raised
               THEN Response(500, [error |-> "gigachat: exception"])
               ELSE IF th.done.ret.success
               THEN Response(200,
                      [success  |-> TRUE,
                       analysis |-> [status   |-> "completed",
                                     message  |-> "done",
                                     content  |-> th.done.ret.analysis,
                                     model    |-> th.done.ret.model,
                                     filename |-> th.done.ret.filename]])
               ELSE Response(200, [success |-> FALSE,
                                   error   |-> th.done.ret.error]),
               "wait", th.done))
    /\ UNCHANGED <<uploads, clock, call, client>>

\* gigachat_analysis: the wrapper returned, the handler answers
GigaChatAnswer ==
  \E th \in BagToSet(threads) :
    /\ th.pc = "analysis wait" /\ th.endpoint = "gigachat"
    /\ threads' = Goes(th, [pc |-> "analysis done", endpoint |-> "gigachat"])
    /\ resp' =
         Put(resp, "gigachat",
             AnalysisEntry(th.req,
               IF th.done.raised
               THEN Response(500, [error |-> "gigachat: exception"])
               ELSE IF th.done.ret.success
               THEN Response(200,
                      [success  |-> TRUE,
                       analysis |-> [status   |-> "completed",
                                     message  |-> "done",
                                     content  |-> th.done.ret.analysis,
                                     model    |-> th.done.ret.model,
                                     filename |-> th.done.ret.filename]])
               ELSE Response(500, [success |-> FALSE,
                                   error   |-> th.done.ret.error]),
               "wait", th.done))
    /\ UNCHANGED <<uploads, clock, call, client>>

NextAnalysis ==
  \/ AnalysisUpload \/ UploadWrite \/ UploadRead
  \/ YandexBegin \/ YandexExists \/ YandexRead
  \/ YandexCreate \/ YandexCall \/ YandexAnswer
  \/ GigaChatBegin \/ GigaChatExists \/ GigaChatRead
  \/ GigaChatCreate \/ GigaChatCall \/ GigaChatAnswer

SpecAnalysis == InitAnalysis /\ [][NextAnalysis]_vars

\* ------------------------------------------------------- the paging service
\* One table is uploaded; then either one request to /load_more is made with
\* any start_row and rows_count, or the client pages through the table: its
\* first request starts at row 100, each later one at the end_row of the
\* response before it.

\* a table read from a file: n + 1 rows of two text columns, the second row
\* empty, so that the cleaned table has n rows
PagedFrame(n) ==
  DataFrame([r \in 1..(n + 1) |-> r - 1],
            [c \in 1..2 |->
               Column(<<LabelA, LabelB>>[c], "object",
                      [r \in 1..(n + 1) |-> IF r = 2 THEN NAN ELSE StrV("abc")],
                      c)])

\* the row counts of the cleaned tables
PagedSizes == {1} \cup ((DISPLAY_ROWS - 1)..(DISPLAY_ROWS + ExtraRows))

\* the table of a CSV file whose lines of data have one field more than its
\* header: the first field labels the row, and two rows have one label
FrameIndexed ==
  DataFrame(<<Val("int", "7"), Val("int", "7"), Val("int", "12")>>,
            << Column(StrV("n"), "int64",
                      <<Val("int", "12"), Val("int", "7"), Val("int", "7")>>, 1),
               Column(StrV("t"), "object",
                      <<StrV("abc"), StrV("x"), StrV("abc")>>, 2) >>)

\* the fields of a CSV file whose header names one column twice
FrameNamedTwice ==
  DataFrame(<<0>>,
            << Column(StrV("n"), "int64", <<Val("int", "12")>>, 1),
               Column(StrV("n"), "object", <<StrV("abc")>>, 2) >>)

\* The uploads of the paging service: tables of the row counts above as CSV
\* and Excel files, and CSV files with labelled rows and with a header that
\* names a column twice.
PagingUploads ==
  {Request(TRUE, NameCsv, CsvFile(enc, PagedFrame(n))) :
     enc \in {"utf-8", "cp1251"}, n \in PagedSizes}
  \cup {Request(TRUE, NameXlsx, ExcelFile(PagedFrame(n))) : n \in PagedSizes}
  \cup {Request(TRUE, NameCsv, IndexedCsvFile("utf-8", FrameIndexed, 1)),
        Request(TRUE, NameCsv, CsvFile("utf-8", FrameNamedTwice))}

\* the client as a successful response of /upload leaves it
ClientAfterUpload(body) ==
  [paging |-> TRUE, filename |-> body.filename, next |-> DISPLAY_ROWS,
   got |-> <<>>, calls |-> 0, status |-> 200, more |-> body.has_more_data]

\* the upload of the table begins: no other request is under way
UploadTable ==
  /\ "upload" \notin DOMAIN resp
  /\ threads = EmptyBag
  /\ OpenOf(PagingUploads)

\* the upload is answered; the client keeps the name and has_more_data
TableRead ==
  \E th \in BagToSet(threads) :
    /\ ReadBy(th)
    /\ client' = IF /\ "upload" \in DOMAIN resp'
                    /\ resp'["upload"].response.status = 200
                 THEN ClientAfterUpload(resp'["upload"].response.body)
                 ELSE client

\* the start_row and rows_count fields of the requests to /load_more
StartRows == {Field(FALSE, 0)} \cup
             {Field(TRUE, v) : v \in {-1, 0, 1, DISPLAY_ROWS, DISPLAY_ROWS + 1}}
RowsCounts == {Field(FALSE, 0)} \cup
              {Field(TRUE, v) : v \in {-1, 0, 1, 2, DISPLAY_ROWS}}

LoadMoreRequests ==
  [json : BOOLEAN, filename : {<<>>, AbsentName} \cup DOMAIN uploads,
   start_row : StartRows, rows_count : RowsCounts]

\* one request to /load_more, made by a client that has not paged
LoadMore ==
  /\ "upload" \in DOMAIN resp
  /\ "load_more" \notin DOMAIN resp
  /\ client.paging => client.calls = 0
  /\ \E req \in LoadMoreRequests :
       resp' = Put(resp, "load_more",
                   [req |-> req, response |-> load_more_data(req, FilesIn(uploads))])
  /\ UNCHANGED <<uploads, clock, call, client, threads>>

\* the rows_count values the paging client asks for
PageSizes == {1, 2, DISPLAY_ROWS}

\* the labels of the rows in a 'data' list
RowsOf(data) == [k \in 1..Len(data) |-> data[k].row]

\* the paging client asks for its next rows, while the last response was a
\* success with has_more_data true
PageNext ==
  /\ "load_more" \notin DOMAIN resp
  /\ client.paging
  /\ client.status = 200
  /\ client.more
  /\ \E count \in PageSizes :
       LET req == [json |-> TRUE, filename |-> client.filename,
                   start_row |-> Field(TRUE, client.next),
                   rows_count |-> Field(TRUE, count)]
           r   == load_more_data(req, FilesIn(uploads))
       IN  client' = IF r.status = 200
                     THEN [client EXCEPT !.next = r.body.end_row,
                                         !.got = @ \o RowsOf(r.body.data),
                                         !.calls = @ + 1,
                                         !.more = r.body.has_more_data]
                     ELSE [client EXCEPT !.status = r.status,
                                         !.calls = @ + 1]
  /\ UNCHANGED <<uploads, clock, resp, call, threads>>

NextPaging ==
  UploadTable \/ UploadWrite \/ TableRead \/ LoadMore \/ PageNext

SpecPaging == Init /\ [][NextPaging]_vars

\* ------------------------------------------------------- the report service
\* The upload folder is as one request to /upload left it.  Requests to
\* /generate_pdf are handled in threads, while the file they read may be
\* uploaded again.  The handler of /generate_pdf runs in steps: it checks
\* the request, calls the readers one after the other, builds the report,
\* opens the path of the report and writes it.

InitReport ==
  /\ uploads \in SourceFolders
  /\ clock = 0
  /\ resp = EmptyDict
  /\ call = NoCall
  /\ client = NoClient
  /\ threads = EmptyBag

\* the names of the reports in the folder, and of the other files
ReportsIn(folder) ==
  {n \in DOMAIN folder : \E now \in 0..MaxClock : n = ReportName(now)}
SourcesIn(folder) == DOMAIN folder \ ReportsIn(folder)

\* the requests to /generate_pdf: one without a JSON body, one without a
\* filename, one for a file that is not stored, and for every stored upload
\* one with each pair of analysis texts
ReportRequest(json, filename, yandex_text, gigachat_text) ==
  [json |-> json, filename |-> filename, yandex_analysis |-> yandex_text,
   gigachat_analysis |-> gigachat_text]

ReportRequests ==
  {ReportRequest(FALSE, <<>>, <<>>, <<>>),
   ReportRequest(TRUE, <<>>, <<"t">>, <<>>),
   ReportRequest(TRUE, AbsentName, <<"t">>, <<>>)}
  \cup {ReportRequest(TRUE, n, y, g) :
          n \in SourcesIn(uploads), y \in AnalysisTexts, g \in AnalysisTexts}

\* the entry of resp for an answered request to /generate_pdf; story is the
\* story of the report the handler wrote, <<>> when it wrote none
ReportEntry(req, response, story) ==
  [req |-> req, response |-> response, report |-> story]

\* the file is uploaded again
SourceOpen == OpenOf(SourceUploads)

\* a request that does not pass the checks is answered; one that passes
\* them goes on to read the file, which os.path.exists found
ReportBegin ==
  \E req \in ReportRequests :
    /\ IF ReportRejection(req, uploads) # ""
       THEN /\ Takes(Done)
            /\ resp' = Put(resp, "generate_pdf",
                           ReportEntry(req, ReportRejected(req, uploads), <<>>))
       ELSE /\ Takes([pc |-> "report read", req |-> req, read |-> NoRead])
            /\ resp' = resp
    /\ UNCHANGED <<uploads, clock, call, client>>

\* The handler calls the next reader on the bytes that are at the path now.
\* When the try / except is left with that, it answers 500 for a file no
\* reader returned a table of and for a table detect_data_types refuses;
\* otherwise it builds the story of the report, and will read the clock for
\* the name of the report in this second or a later one.
ReportRead ==
  \E th \in BagToSet(threads) :
    /\ th.pc = "report read"
    /\ LET read == ReadNext(th.req.filename,
                            FileAt(uploads[th.req.filename]), th.read)
           df   == CleanUploaded(read.df)
       IN  IF ~ReadDone(th.req.filename, read)
           THEN /\ threads' = Goes(th, [th EXCEPT !.read = read])
                /\ resp' = resp
           ELSE IF read.raised
           THEN /\ threads' = Returns(th)
                /\ resp' = Put(resp, "generate_pdf",
                               ReportEntry(th.req,
                                           Response(500, ErrorBody(read.error)),
                                           <<>>))
           ELSE IF detect_data_types(df).raised
           THEN /\ threads' = Returns(th)
                /\ resp' = Put(resp, "generate_pdf",
                               ReportEntry(th.req,
                                           Response(500,
                                                    ErrorBody("AttributeError")),
                                           <<>>))
           ELSE /\ threads' =
                     Goes(th, [pc |-> "report build", req |-> th.req,
                               story |-> generate_report(PdfData(th.req, df)),
                               since |-> clock])
                /\ resp' = resp
    /\ UNCHANGED <<uploads, clock, call, client>>

\* doc.build(story) opens the path of the report, which cuts it to no bytes;
\* the name is of the second now in which the handler read the clock
ReportOpen ==
  \E th \in BagToSet(threads) :
    /\ th.pc = "report build"
    /\ \E now \in th.since..clock :
         /\ uploads' = Put(uploads, ReportName(now), <<>>)
         /\ threads' = Goes(th, [pc |-> "report write", req |-> th.req,
                                 story |-> th.story,
                                 filename |-> ReportName(now)])
    /\ UNCHANGED <<clock, resp, call, client>>

\* generate_report raises (a failure of the PDF library), before the path of
\* the report is opened or after: the request is answered 500
ReportFail ==
  \E th \in BagToSet(threads) :
    /\ th.pc \in {"report build", "report write"}
    /\ threads' = Returns(th)
    /\ resp' = Put(resp, "generate_pdf", ReportEntry(th.req, ReportFailed, <<>>))
    /\ UNCHANGED <<uploads, clock, call, client>>

\* doc.build(story) writes the report through its handle, in one write from
\* the start of the path, and the request is answered
ReportWrite ==
  \E th \in BagToSet(threads) :
    /\ th.pc = "report write"
    /\ uploads' = Put(uploads, th.filename,
                      WriteAt(uploads[th.filename], 0,
                              PartsOf(ReportFile(th.story))))
    /\ threads' = Returns(th)
    /\ resp' = Put(resp, "generate_pdf",
                   ReportEntry(th.req, ReportCreated(th.filename), th.story))
    /\ UNCHANGED <<clock, call, client>>

NextReport ==
  \/ Tick
  \/ SourceOpen \/ UploadWrite \/ UploadRead
  \/ ReportBegin \/ ReportRead \/ ReportOpen \/ ReportFail \/ ReportWrite

SpecReport == InitReport /\ [][NextReport]_vars

\* ------------------------------------------------- claims on the functions

TypeLabels == {"numeric", "datetime", "text"}

\* a column whose values are sampled (dtype object) and that has no value
\* that is not null, or whose first sample value no parser accepts
FallsBackToText(col) ==
  /\ col.dtype = "object"
  /\ \/ NonNull(col.cells) = <<>>
     \/ /\ ToDatetimeRaises(NonNull(col.cells)[1])
        /\ ToNumericRaises(NonNull(col.cells)[1])

\* C3: detect_data_types is total: for any table it does not raise, gives
\* every column exactly one label of numeric, datetime, text, and gives
\* 'text' to a sampled column whenever the sample value cannot be parsed or
\* the column has no non-null value.
C3_DetectTotalBestEffort ==
  call.fn = "detect_data_types" =>
    /\ ~call.ret.raised
    /\ \A c \in 1..Len(call.df.cols) :
         LET col == call.df.cols[c]
         IN  /\ col.label \in DOMAIN call.ret.data_types
             /\ call.ret.data_types[col.label] \in TypeLabels
             /\ FallsBackToText(col) => call.ret.data_types[col.label] = "text"

\* the table extract_table_from_pdf parsed: the first table of the first page
ParsedTable(file) == file.doc[1][1]

\* the cells of the parsed table under column pos, on the rows of index
SourceCells(file, pos, index) ==
  [k \in 1..Len(index) |-> ParsedTable(file)[index[k] + 2][pos]]

IsNumberCell(c) == c.t = "str" /\ c.v \in NumericText
IsDateCell(c) == c.t = "str" /\ c.v \in DateText
IsPlainCell(c) == c.t = "str" /\ c.v \notin NumericText \cup DateText

AllNumbers(cells) == \A k \in 1..Len(cells) : IsNumberCell(cells[k])
AllDates(cells) == \A k \in 1..Len(cells) : IsDateCell(cells[k])
AllPlain(cells) == \A k \in 1..Len(cells) : IsPlainCell(cells[k])

\* C4: in the table extract_table_from_pdf returns, a column whose cells are
\* numbers is numeric, a column whose cells are dates is datetime, and a
\* column whose cells convert to neither keeps its original text values.
C4_PdfTypingFallsBackToText ==
  (call.fn = "extract_table_from_pdf" /\ ~call.ret.raised) =>
    \A c \in 1..Len(call.ret.df.cols) :
      LET col == call.ret.df.cols[c]
          src == SourceCells(call.file, col.pos, call.ret.df.index)
      IN  /\ AllNumbers(src) =>
               col.dtype \in {"int64", "float64"}
          /\ AllDates(src) =>
               /\ col.dtype = "datetime64[ns]"
               /\ \A k \in 1..Len(src) : col.cells[k] = Val("Timestamp", src[k].v)
          /\ AllPlain(src) => col.cells = src

\* the tables of a document in page order
RECURSIVE TablesOf(_)
TablesOf(doc) ==
  IF doc = <<>> THEN <<>> ELSE Head(doc) \o TablesOf(Tail(doc))

\* a table with a header row and at least one data row
HasHeaderAndData(table) == Len(table) >= 2

HasTable(doc) == Len(TablesOf(doc)) > 0

\* the first table of the document, in page order
FirstTable(doc) == TablesOf(doc)[1]

\* C5: for any document whose first table, on whatever page it is, has a
\* header row and a data row, extract_table_from_pdf returns that table (its
\* header row as column names, its other rows as data), not an error.
C5_FirstTableOnAnyPage ==
  (/\ call.fn = "extract_table_from_pdf"
   /\ HasTable(call.file.doc)
   /\ HasHeaderAndData(FirstTable(call.file.doc))) =>
    LET table == FirstTable(call.file.doc)
        df    == call.ret.df
    IN  /\ ~call.ret.raised
        /\ \A c \in 1..Len(df.cols) : df.cols[c].label = table[1][df.cols[c].pos]
        /\ \A k \in 1..Len(df.index) : df.index[k] + 2 <= Len(table)

\* the rows a prompt shows, as positions in the source table
PromptRows(prompt) == [i \in 1..Len(prompt.lines) |-> prompt.lines[i].row]

IsAnalyzeCall ==
  call.fn \in {"yandex.analyze_table_data", "gigachat.analyze_table_data"}

IsCreateCall ==
  call.fn \in {"create_yandex_analyzer", "create_gigachat_analyzer"}

\* the environment lacks a credential the constructor of call.fn reads
CredentialsMissing ==
  IF call.fn = "create_yandex_analyzer"
  THEN ~call.env.folder_id \/ ~call.env.auth_token
  ELSE ~call.env.api_key

\* C9: the wrappers report failure as values: create_*_analyzer returns None
\* (and does not raise) when credentials are missing or the client does not
\* construct; analyze_table_data does not raise and returns a dict with
\* 'success', which when true has 'analysis', 'model' and 'filename' (the
\* argument), and when false has 'error', also when the remote call raises
\* or returns an empty response.
C9_FailuresAreValues ==
  /\ IsCreateCall =>
       /\ ~call.ret.raised
       /\ (CredentialsMissing \/ ~call.env.client) => call.ret.analyzer = "None"
  /\ IsAnalyzeCall =>
       /\ ~call.ret.raised
       /\ "success" \in DOMAIN call.ret.ret
       /\ call.ret.ret.success =>
            /\ {"analysis", "model", "filename"} \subseteq DOMAIN call.ret.ret
            /\ call.ret.ret.filename = call.filename
       /\ ~call.ret.ret.success => "error" \in DOMAIN call.ret.ret
       /\ call.remote \in {"raises", "empty"} => ~call.ret.ret.success

\* C9 witness: a remote call that raised was reported as a failure value
C9_Witness ==
  /\ IsAnalyzeCall
  /\ call.remote = "raises"
  /\ Len(call.ret.sent) = 1
  /\ ~call.ret.raised
  /\ ~call.ret.ret.success

\* C10: the prompt either analyze_table_data sends holds at most the first
\* 15 rows of table_data, in their order, whatever the length of table_data.
C10_PromptHasFirst15Rows ==
  IsAnalyzeCall =>
    \A k \in 1..Len(call.ret.sent) :
      LET rows == PromptRows(call.ret.sent[k])
      IN  /\ Len(rows) <= SAMPLE_ROWS
          /\ \A i \in 1..Len(rows) : rows[i] = call.table_data[i].row

\* ---------------------------------------------------- claims on /upload

Uploaded == "upload" \in DOMAIN resp

\* the text after the last dot of a name, lower-cased
ExtensionOf(name) ==
  LowerStr(SubSeq(name, LastDot(name) + 1, Len(name)))

\* the reader the extension of a name stands for
ReaderOfExtension(ext) ==
  CASE ext = EXT_PDF -> "extract_table_from_pdf"
    [] ext = EXT_CSV -> "read_csv"
    [] ext \in {EXT_XLSX, EXT_XLS} -> "read_excel"
    [] OTHER -> "none"

\* the request carries a file whose name allowed_file accepts
AcceptedUpload(r) ==
  /\ r.req.has_file
  /\ r.req.filename # <<>>
  /\ HasDot(r.req.filename)
  /\ ExtensionOf(r.req.filename) \in {EXT_XLSX, EXT_XLS, EXT_CSV, EXT_PDF}

\* C1: every upload whose name allowed_file accepts is read by the reader of
\* the name's extension, compared case-insensitively: pdf by
\* extract_table_from_pdf, csv by pd.read_csv, xlsx and xls by pd.read_excel,
\* also for upper-case extensions and names secure_filename rewrites.
C1_DispatchByExtension ==
  (Uploaded /\ AcceptedUpload(resp["upload"])) =>
    /\ resp["upload"].readers # <<>>
    /\ resp["upload"].readers[1] =
         ReaderOfExtension(ExtensionOf(resp["upload"].req.filename))

\* the last request to /upload was answered 400
Rejected == Uploaded /\ resp["upload"].response.status = 400

\* C2: /upload answers 400 with an 'error' field exactly when the request
\* has no file part, or the file name is empty, or has no dot, or its
\* lower-cased text after the last dot is none of xlsx, xls, csv, pdf; then
\* no reader is invoked and no file is written to the upload folder.
C2_RejectedExactly ==
  /\ [](Uploaded =>
          /\ Rejected <=> ~AcceptedUpload(resp["upload"])
          /\ Rejected =>
               /\ "error" \in DOMAIN resp["upload"].response.body
               /\ resp["upload"].readers = <<>>)
  /\ [][(resp' # resp /\ Rejected') => uploads' = uploads]_vars

\* C2 witness: a file of a type that is not allowed was rejected while the
\* folder held a file
C2_Witness ==
  /\ Rejected
  /\ resp["upload"].req.filename = NameTxt
  /\ DOMAIN uploads # {}

\* the error extract_table_from_pdf raises for a document, "" for none
ExtractErrorOf(doc) ==
  IF Len(doc) = 0 THEN "no pages"
  ELSE IF Len(doc[1]) = 0 THEN "no tables"
  ELSE IF Len(doc[1][1]) = 0 THEN "empty table"
  ELSE IF Len(doc[1][1]) < 2 THEN "short table"
  ELSE ""

\* C6: when the document has no pages, or the examined page has no table,
\* or the first table is empty or has fewer than 2 rows,
\* extract_table_from_pdf raises and /upload answers 500 with an 'error'
\* field, not a success response.
C6_ExtractErrorsAnswer500 ==
  (/\ Uploaded
   /\ resp["upload"].readers = <<"extract_table_from_pdf">>
   /\ resp["upload"].file.fmt = "pdf"
   /\ ExtractErrorOf(resp["upload"].file.doc) # "") =>
    /\ resp["upload"].response.status = 500
    /\ resp["upload"].response.body =
         ErrorBody(ExtractErrorOf(resp["upload"].file.doc))

\* C6 witness: a table of a header row alone was uploaded and answered 500
C6_Witness ==
  /\ Uploaded
  /\ resp["upload"].file = PdfHeaderOnly
  /\ resp["upload"].readers = <<"extract_table_from_pdf">>
  /\ resp["upload"].response.status = 500

\* ------------------------------------------ claims on the analysis endpoints

\* the outcome class of an answered analysis request, from the step its
\* handler returned at and what the wrapper returned
OutcomeClass(r) ==
  CASE r.at = "begin" ->
         IF r.req.json THEN "filename missing" ELSE "no JSON body"
    [] r.at = "exists" -> "file absent"
    [] r.at = "read" -> "file unreadable"
    [] r.at = "create" -> "analyzer cannot be created"
    [] OTHER ->
         IF ~r.done.raised /\ r.done.ret.success THEN "remote result success"
         ELSE "remote result failure"

\* the shape of a response body: its fields and those of body.analysis
Shape(body) ==
  [fields   |-> DOMAIN body,
   analysis |-> IF "analysis" \in DOMAIN body THEN DOMAIN body.analysis
                ELSE {}]

BothAnswered == Endpoints \subseteq DOMAIN resp

\* C7: for the same request and the same outcome class /yandex_analysis and
\* /gigachat_analysis return the same status and the same response shape; on
\* success it is success=true with analysis.status, message, content, model
\* and filename.
C7_EndpointsInterchangeable ==
  (/\ BothAnswered
   /\ resp["yandex"].req = resp["gigachat"].req
   /\ OutcomeClass(resp["yandex"]) = OutcomeClass(resp["gigachat"])) =>
    /\ resp["yandex"].response.status = resp["gigachat"].response.status
    /\ Shape(resp["yandex"].response.body) = Shape(resp["gigachat"].response.body)
    /\ OutcomeClass(resp["yandex"]) = "remote result success" =>
         /\ resp["yandex"].response.status = 200
         /\ resp["yandex"].response.body.success
         /\ Shape(resp["yandex"].response.body) =
              [fields   |-> {"success", "analysis"},
               analysis |-> {"status", "message", "content", "model",
                             "filename"}]

\* C7 witness: both endpoints answered the same request with a success,
\* while a request to /upload was writing to the folder
C7_Witness ==
  /\ BothAnswered
  /\ resp["yandex"].req = resp["gigachat"].req
  /\ OutcomeClass(resp["yandex"]) = "remote result success"
  /\ OutcomeClass(resp["gigachat"]) = "remote result success"
  /\ resp["yandex"].response.body.analysis.model = "yandexgpt"
  /\ resp["gigachat"].response.body.analysis.model = "gigachat"
  /\ \E th \in BagToSet(threads) : th.pc \in {"save", "read"}

\* the steps of a handler that did not return, in their order
CheckSteps ==
  {<<"none", "analysis exists">>, <<"analysis exists", "analysis read">>,
   <<"analysis read", "analysis create">>,
   <<"analysis create", "analysis call">>,
   <<"analysis call", "analysis wait">>}

\* The step that the handler of endpoint e takes keeps the order of the
\* checks.  It returns with 400 before any check of the folder, for a
\* filename that is missing; with 404 from the check that the file exists,
\* for a file that is not in the folder then; with 500 from the readers, the
\* last of which raised on the bytes at the path then, and from the creation
\* of the analyzer.  It goes on to the readers for a file in the folder, to
\* the creation with a table a reader returned, to the call with an
\* analyzer, and from the call to the answer and nowhere else.
ChecksInOrder(e) ==
  LET before == HandlerOf(e, threads)
      after  == HandlerOf(e, threads')
  IN  before.pc # after.pc =>
        IF after.pc = "analysis done"
        THEN /\ resp'[e].req.json =>
                  CASE before.pc = "none" ->
                         /\ resp'[e].req.filename = <<>>
                         /\ resp'[e].response.status = 400
                    [] before.pc = "analysis exists" ->
                         /\ before.req.filename \notin DOMAIN uploads
                         /\ resp'[e].response.status = 404
                    [] before.pc = "analysis read" ->
                         /\ ReadNext(before.req.filename,
                                     FileAt(uploads[before.req.filename]),
                                     before.read).raised
                         /\ resp'[e].response.status = 500
                    [] before.pc = "analysis create" ->
                         resp'[e].response.status = 500
                    [] OTHER -> before.pc = "analysis wait"
             /\ Len(resp'[e].done.sent) <= 1
             /\ resp'[e].done.sent # <<>> => before.pc = "analysis wait"
        ELSE /\ <<before.pc, after.pc>> \in CheckSteps
             /\ after.pc = "analysis exists" =>
                  after.req.json /\ after.req.filename # <<>>
             /\ after.pc = "analysis read" =>
                  after.req.filename \in DOMAIN uploads
             /\ after.pc = "analysis create" =>
                  ~ReadNext(before.req.filename,
                            FileAt(uploads[before.req.filename]),
                            before.read).raised
             /\ after.pc = "analysis call" => after.analyzer # "None"
             /\ after.pc = "analysis wait" => Len(after.done.sent) <= 1

\* C8: both analysis endpoints check in a fixed order and call the service
\* last: missing filename -> 400, file not in the upload folder -> 404, file
\* read failure -> 500, no analyzer -> 500; analyze_table_data is invoked
\* only when all of these passed, and at most once per request.
C8_ChecksInOrder ==
  [][\A e \in Endpoints : ChecksInOrder(e)]_vars

\* C8 witness: one endpoint stopped at the missing analyzer, the other went
\* on to the service, whose answer it waits for while /upload writes
C8_Witness ==
  /\ "yandex" \in DOMAIN resp
  /\ OutcomeClass(resp["yandex"]) = "analyzer cannot be created"
  /\ resp["yandex"].done.sent = <<>>
  /\ HandlerOf("gigachat", threads).pc = "analysis wait"
  /\ Len(HandlerOf("gigachat", threads).done.sent) = 1
  /\ \E th \in BagToSet(threads) : th.pc = "save"

\* ------------------------------------------------------ claims on paging

\* the last request to /upload was answered with a success
UploadSucceeded == Uploaded /\ resp["upload"].response.status = 200

\* the cleaned table of the file the last request to /upload read
UploadedTable == CleanUploaded(resp["upload"].file.df)

\* the labels of the rows of table t at the positions i (from
\* 0) with from <= i < to
Window(t, from, to) ==
  LET lo == IF from < 0 THEN 0 ELSE from
      hi == Min(to, NRows(t))
  IN  [k \in 1..(IF hi > lo THEN hi - lo ELSE 0) |-> t.index[lo + k]]

\* C11: a successful /upload response carries in 'data' exactly the first
\* min(100, total_rows) rows of the cleaned table in order, 'total_rows' is
\* the row count of the cleaned table, and has_more_data is true if and only
\* if total_rows > 100.
C11_UploadFirstRows ==
  UploadSucceeded =>
    LET body == resp["upload"].response.body
    IN  /\ body.total_rows = NRows(UploadedTable)
        /\ Len(body.data) = Min(DISPLAY_ROWS, body.total_rows)
        /\ RowsOf(body.data) = Window(UploadedTable, 0, DISPLAY_ROWS)
        /\ body.has_more_data <=> body.total_rows > DISPLAY_ROWS

\* C11 witness: a table of 101 rows was uploaded; 100 rows came back, with
\* has_more_data
C11_Witness ==
  /\ UploadSucceeded
  /\ resp["upload"].response.body.total_rows = DISPLAY_ROWS + 1
  /\ Len(resp["upload"].response.body.data) = DISPLAY_ROWS
  /\ resp["upload"].response.body.has_more_data

\* C12: for any integers start_row and rows_count and a stored table of N
\* rows, a successful /load_more response reports
\* end_row = min(start_row + rows_count, N), its 'data' are exactly the rows
\* at the positions i with start_row <= i < end_row, and has_more_data is
\* true if and only if end_row < N.
C12_LoadMoreWindow ==
  ("load_more" \in DOMAIN resp /\ resp["load_more"].response.status = 200) =>
    LET req   == resp["load_more"].req
        body  == resp["load_more"].response.body
        t     == CleanStored(FileAt(uploads[req.filename]).df)
        start == GetOr(req.start_row, 0)
        count == GetOr(req.rows_count, DEFAULT_ROWS_COUNT)
    IN  /\ body.end_row = Min(start + count, NRows(t))
        /\ RowsOf(body.data) = Window(t, start, body.end_row)
        /\ body.has_more_data <=> body.end_row < NRows(t)

\* C13: the client that pages from row 100 on, each request starting at the
\* end_row before it with rows_count >= 1, is answered with a success every
\* time, has received the rows from 100 up to its next start_row exactly once
\* and in order, makes at most one call per remaining row, and has every row
\* once has_more_data is false.
C13_PagingCompletes ==
  client.paging =>
    LET t == CleanUploaded(FileAt(uploads[client.filename]).df)
    IN  /\ client.status = 200
        /\ client.got = Window(t, DISPLAY_ROWS, client.next)
        /\ client.calls > 0 => client.calls <= NRows(t) - DISPLAY_ROWS
        /\ ~client.more => client.next >= NRows(t)

\* ------------------------------------------------- claims on /generate_pdf

\* the last request to /generate_pdf was answered with a success
ReportMade ==
  /\ "generate_pdf" \in DOMAIN resp
  /\ resp["generate_pdf"].response.status = 200

\* the text of an analysis field is not empty and is not the placeholder
Qualifies(text) == text # <<>> /\ text # PLACEHOLDER

\* the report has the part
HasPart(story, part) == \E k \in 1..Len(story) : story[k].part = part

\* the report has a part of the AI section
HasAiSection(story) ==
  \E k \in 1..Len(story) :
    story[k].part \in {"ai title", "ai yandex", "ai gigachat"}

\* C14: the report /generate_pdf writes includes a service's commentary if
\* and only if the request field of that service is non-empty and differs
\* from the placeholder, each field on its own; when neither field qualifies
\* the report is still generated, without the AI section.
C14_CommentaryIffFieldQualifies ==
  ReportMade =>
    LET r == resp["generate_pdf"]
    IN  /\ HasPart(r.report, "ai yandex") <=> Qualifies(r.req.yandex_analysis)
        /\ HasPart(r.report, "ai gigachat") <=>
             Qualifies(r.req.gigachat_analysis)
        /\ (~Qualifies(r.req.yandex_analysis)
            /\ ~Qualifies(r.req.gigachat_analysis)) =>
             ~HasAiSection(r.report)

\* s is the start of t
IsPrefix(s, t) == Len(s) <= Len(t) /\ SubSeq(t, 1, Len(s)) = s

\* C16: stored names never collide: a request to /upload or /generate_pdf
\* writes to a path no other request wrote to, also within one second and
\* with the same client file name, so no stored file is overwritten: a path
\* in the folder stays, and the only change of its bytes is that the request
\* that opened it adds its next bytes to them.
C16_StoredNamesNeverCollide ==
  [][\A n \in DOMAIN uploads :
       /\ n \in DOMAIN uploads'
       /\ IsPrefix(uploads[n], uploads'[n])]_vars

\* ------------------------------------------------- claims on the two loops

\* a loop over the columns of a table is under way or has ended
InLoop == call.fn \in {"detect_data_types loop", "typing loop"}

\* C15 as stated: the loop of detect_data_types and the typing loop of
\* extract_table_from_pdf go over the columns in one pass, each pass going
\* on to the next column, and end when every column has had its pass; no
\* column is gone over again and no loop stops at a failure.
C15_EachColumnExactlyOnce ==
  /\ [](InLoop /\ call.loop.ended =>
          call.loop.column = Len(call.loop.df.cols) + 1)
  /\ [][InLoop /\ InLoop' => call.loop.column' = call.loop.column + 1]_vars
====
